---------------------------- MODULE Spec2Model ----------------------------
(***************************************************************************)
(* A model of the crunchize execution engine (src/src/crunchize/engine.py) *)
(* and of the task implementations it dispatches to.                       *)
(*                                                                         *)
(* Python strings are modelled as sequences of one-character strings, so   *)
(* that the regular expressions and the path functions of the code are     *)
(* computed character by character.  Python values are tagged records.     *)
(***************************************************************************)
EXTENDS Integers, Sequences, FiniteSets, TLC

(***************************************************************************)
(* Characters and strings                                                  *)
(***************************************************************************)

\* The printable ASCII characters in code point order, from 32 (space); the
\* backquote, which the lexer of TLA+ does not take in a string, keeps its place.
Ascii ==
  << " ", "!", "\"", "#", "$", "%", "&", "'", "(", ")", "*", "+", ",", "-", ".", "/",
     "0", "1", "2", "3", "4", "5", "6", "7", "8", "9", ":", ";", "<", "=", ">", "?",
     "@", "A", "B", "C", "D", "E", "F", "G", "H", "I", "J", "K", "L", "M", "N", "O",
     "P", "Q", "R", "S", "T", "U", "V", "W", "X", "Y", "Z", "[", "\\", "]", "^", "_",
     "(backtick)", "a", "b", "c", "d", "e", "f", "g", "h", "i", "j", "k", "l", "m", "n", "o",
     "p", "q", "r", "s", "t", "u", "v", "w", "x", "y", "z", "{", "|", "}", "~" >>

\* ord(c): the position of c in the table (an order-preserving image of the
\* code point).
OrdTable == [c \in {Ascii[i] : i \in 1..Len(Ascii)} |->
               CHOOSE i \in 1..Len(Ascii) : Ascii[i] = c]
Ord(c) == OrdTable[c]

Digits == {"0", "1", "2", "3", "4", "5", "6", "7", "8", "9"}

\* [a-zA-Z0-9]
AlnumChars ==
  Digits \cup {Ascii[i] : i \in OrdTable["a"]..OrdTable["z"]}
         \cup {Ascii[i] : i \in OrdTable["A"]..OrdTable["Z"]}
IsAlnum(c) == c \in AlnumChars

\* [a-zA-Z0-9_]
IsIdentChar(c) == IsAlnum(c) \/ c = "_"

\* \s (of the printable characters only the space is white)
IsSpace(c) == c = " "

Min(a, b) == IF a <= b THEN a ELSE b
Max(a, b) == IF a >= b THEN a ELSE b

\* s[i:j] of Python with 0 <= i <= j <= len(s), as the elements i+1..j.
Slice(s, i, j) == [k \in 1..(j - i) |-> s[i + k]]

\* Python's s1 < s2 on strings: lexicographic by code point.
RECURSIVE StrLess(_, _)
StrLess(s1, s2) ==
  IF s2 = << >> THEN FALSE
  ELSE IF s1 = << >> THEN TRUE
  ELSE IF s1[1] = s2[1] THEN StrLess(Tail(s1), Tail(s2))
  ELSE Ord(s1[1]) < Ord(s2[1])

\* s.rfind(c) + 1: the 1-based position of the last c in s, 0 if there is none.
LastIndexOf(s, c) ==
  LET hits == {i \in 1..Len(s) : s[i] = c}
  IN  IF hits = {} THEN 0 ELSE CHOOSE i \in hits : \A j \in hits : j <= i

\* s.rstrip(c)
RECURSIVE RStripChar(_, _)
RStripChar(s, c) ==
  IF s # << >> /\ s[Len(s)] = c THEN RStripChar(SubSeq(s, 1, Len(s) - 1), c) ELSE s

\* posixpath.basename(p)
Basename(p) == Slice(p, LastIndexOf(p, "/"), Len(p))

\* posixpath.dirname(p)
Dirname(p) ==
  LET head == Slice(p, 0, LastIndexOf(p, "/"))
  IN  IF head # << >> /\ \E i \in 1..Len(head) : head[i] # "/"
      THEN RStripChar(head, "/")
      ELSE head

\* str(n) for n >= 0
DigitChar(d) == Ascii[Ord("0") + d]
RECURSIVE NatStr(_)
NatStr(n) == IF n < 10 THEN <<DigitChar(n)>> ELSE NatStr(n \div 10) \o <<DigitChar(n % 10)>>

(***************************************************************************)
(* Python values                                                           *)
(***************************************************************************)

VNull == [t |-> "null"]
VStr(s) == [t |-> "str", s |-> s]
VNum(n) == [t |-> "num", n |-> n]
VBool(b) == [t |-> "bool", b |-> b]
VList(xs) == [t |-> "list", l |-> xs]
\* A dict keeps its insertion order: a sequence of [k |-> key, v |-> value].
VDict(kvs) == [t |-> "dict", d |-> kvs]

IsStr(v) == v.t = "str"
IsList(v) == v.t = "list"
IsDict(v) == v.t = "dict"

\* bool(v): Python's truth value.
Truthy(v) ==
  CASE v.t = "null" -> FALSE
    [] v.t = "str" -> v.s # << >>
    [] v.t = "num" -> v.n # 0
    [] v.t = "bool" -> v.b
    [] v.t = "list" -> v.l # << >>
    [] v.t = "dict" -> v.d # << >>

\* key in d
DictHas(d, key) == \E i \in 1..Len(d.d) : d.d[i].k = key

\* d.get(key): the value, None when the key is absent.
DictGet(d, key) ==
  IF DictHas(d, key)
  THEN d.d[CHOOSE i \in 1..Len(d.d) : d.d[i].k = key].v
  ELSE VNull

\* A dict that holds the new entry and nothing else.
DictSetAlone(d, key, v) == VDict(<<[k |-> key, v |-> v]>>)

\* d[key] = v: replaces the value in place, or appends the key.
DictSet(d, key, v) ==
  IF DictHas(d, key)
  THEN VDict([i \in 1..Len(d.d) |->
               IF d.d[i].k = key THEN [k |-> key, v |-> v] ELSE d.d[i]])
  ELSE VDict(Append(d.d, [k |-> key, v |-> v]))

\* list(d.keys())
DictKeys(d) == [i \in 1..Len(d.d) |-> d.d[i].k]

\* a or b
PyOr(a, b) == IF Truthy(a) THEN a ELSE b

\* x in xs, for a list xs (by equality).
InList(x, xs) == \E i \in 1..Len(xs) : xs[i] = x

(***************************************************************************)
(* Sequence grouping and filtering (engine.py, run, lines 431-489)         *)
(***************************************************************************)

\* Names the code spells as string literals.
S_src == <<"s", "r", "c">>
S_dst == <<"d", "s", "t">>
S_path == <<"p", "a", "t", "h">>
S_item == <<"i", "t", "e", "m">>
S_single == <<"s", "i", "n", "g", "l", "e">>

\* pattern.search(b) for pattern = ^(.*?)[._](\d+)(\.[a-zA-Z0-9]+)$ .
\* The extension starts at the last dot (its other characters are not
\* dots), the frame number is the run of digits that ends before that dot,
\* and the lazy stem is what precedes the separator before that run.
FrameMatch(b) ==
  LET L == Len(b)
      p == LastIndexOf(b, ".")
      extOk == p >= 1 /\ p < L /\ \A i \in (p + 1)..L : IsAlnum(b[i])
      nondig == {i \in 1..(p - 1) : b[i] \notin Digits}
      q == IF nondig = {} THEN 1
           ELSE (CHOOSE i \in nondig : \A j \in nondig : j <= i) + 1
      ok == extOk /\ q <= p - 1 /\ q >= 2 /\ b[q - 1] \in {".", "_"}
  IN  [ok |-> ok,
       stem |-> IF ok THEN SubSeq(b, 1, q - 2) ELSE << >>,
       frame |-> IF ok THEN SubSeq(b, q, p - 1) ELSE << >>,
       ext |-> IF ok THEN SubSeq(b, p, L) ELSE << >>]

\* The path the filter reads from an item (lines 448-451).
ItemPath(item) ==
  IF IsStr(item) THEN item
  ELSE IF IsDict(item)
  THEN PyOr(DictGet(item, S_src),
            PyOr(DictGet(item, S_dst),
                 PyOr(DictGet(item, S_path),
                      PyOr(DictGet(item, S_item), VStr(<< >>)))))
  ELSE VStr(<< >>)

\* os.path.basename(path) raises TypeError for a path that is not a string;
\* it is called only for a truthy path (line 453).
ItemPathRaises(item) == Truthy(ItemPath(item)) /\ ~IsStr(ItemPath(item))

\* The key of the group an item is appended to (lines 453-457).  ident is
\* id(item).  A key is the tuple (a, b, c) for a frame of a sequence and
\* (a, b, id) for a single item.
GroupKey(item, ident) ==
  LET path == ItemPath(item).s
      m == IF path # << >> THEN FrameMatch(Basename(path))
           ELSE [ok |-> FALSE, stem |-> << >>, frame |-> << >>, ext |-> << >>]
  IN  IF m.ok
      THEN [seq |-> TRUE, a |-> Dirname(path), b |-> m.stem, c |-> m.ext, id |-> 0]
      ELSE [seq |-> FALSE, a |-> S_single, b |-> path, c |-> << >>, id |-> ident]

\* k1 < k2 on the key tuples.
KeyLess(k1, k2) ==
  IF k1.a # k2.a THEN StrLess(k1.a, k2.a)
  ELSE IF k1.b # k2.b THEN StrLess(k1.b, k2.b)
  ELSE IF k1.seq THEN StrLess(k1.c, k2.c)
  ELSE k1.id < k2.id

\* Comparing the tuples compares a string with an int: TypeError.
KeyCompareRaises(k1, k2) == k1.a = k2.a /\ k1.b = k2.b /\ k1.seq # k2.seq

\* sorted(groups.keys())
RECURSIVE SortKeys(_)
SortKeys(S) ==
  IF S = {} THEN << >>
  ELSE LET m == CHOOSE k \in S : \A o \in S \ {k} : KeyLess(k, o)
       IN  <<m>> \o SortKeys(S \ {m})

\* The elements of xs at the positions in idx, in the order of xs.
RECURSIVE PickPositions(_, _)
PickPositions(xs, idx) ==
  IF idx = {} THEN << >>
  ELSE LET i == CHOOSE i \in idx : \A j \in idx : i <= j
       IN  <<xs[i]>> \o PickPositions(xs, idx \ {i})

\* int(round(a / b)) for a >= 0, b > 0: Python rounds a half to the even
\* neighbour.
RoundHalfEven(a, b) ==
  LET q == a \div b
      r == a % b
  IN  IF 2 * r < b THEN q
      ELSE IF 2 * r > b THEN q + 1
      ELSE IF q % 2 = 0 THEN q ELSE q + 1

\* limit = max(min(2, seq_count), int(seq_count * file_amount))  (line 465);
\* file_amount is the fraction fa.num / fa.den.
SampleLimit(seq_count, fa) ==
  Max(Min(2, seq_count), (seq_count * fa.num) \div fa.den)

\* StrideIndex with a half rounded up instead of to the even neighbour.
StrideIndexHalfUp(j, seq_count, limit) ==
  LET sn == Max(limit - 1, seq_count - 1)
      sd == limit - 1
  IN  Min((2 * j * sn + sd) \div (2 * sd), seq_count - 1)

\* index = min(int(round(j * stride)), seq_count - 1) with
\* stride = max(1.0, (seq_count - 1) / (limit - 1))  (lines 471-473).
StrideIndex(j, seq_count, limit) ==
  LET sn == Max(limit - 1, seq_count - 1)
      sd == limit - 1
  IN  Min(RoundHalfEven(j * sn, sd), seq_count - 1)

\* The loop over j of lines 472-476: each picked frame is appended unless
\* it is already in filtered_items.
RECURSIVE StridePick(_, _, _, _)
StridePick(seq_items, limit, j, filtered) ==
  IF j >= limit THEN filtered
  ELSE LET frame_item == seq_items[StrideIndex(j, Len(seq_items), limit) + 1]
       IN  StridePick(seq_items, limit, j + 1,
                      IF InList(frame_item, filtered) THEN filtered
                      ELSE Append(filtered, frame_item))

\* One pass of the loop over the sorted keys (lines 460-476).
SampleGroup(seq_items, fa, filtered) ==
  LET limit == SampleLimit(Len(seq_items), fa)
  IN  IF limit >= Len(seq_items) THEN filtered \o seq_items
      ELSE StridePick(seq_items, limit, 0, filtered)

RECURSIVE SampleGroups(_, _, _, _, _)
SampleGroups(items, keyOf, keys, fa, filtered) ==
  IF keys = << >> THEN filtered
  ELSE SampleGroups(items, keyOf, Tail(keys), fa,
         SampleGroup(PickPositions(items, {i \in 1..Len(items) : keyOf[i] = keys[1]}),
                     fa, filtered))

\* The file_amount step (lines 440-478) on a list, idents[i] being
\* id(items[i]).  raised: the step ends in an exception.
SampleItems(items, idents, fa) ==
  IF \E i \in 1..Len(items) : ItemPathRaises(items[i])
  THEN [raised |-> TRUE, items |-> << >>]
  ELSE LET keyOf == [i \in 1..Len(items) |-> GroupKey(items[i], idents[i])]
           keys == {keyOf[i] : i \in 1..Len(items)}
       IN  IF \E k1, k2 \in keys : KeyCompareRaises(k1, k2)
           THEN [raised |-> TRUE, items |-> << >>]
           ELSE IF \E k \in keys :
                     LET n == Cardinality({i \in 1..Len(items) : keyOf[i] = k})
                     IN  SampleLimit(n, fa) < n /\ SampleLimit(n, fa) = 1
           THEN [raised |-> TRUE, items |-> << >>]
           ELSE [raised |-> FALSE,
                 items |-> SampleGroups(items, keyOf, SortKeys(keys), fa, << >>)]

\* items[::n] for n >= 1  (line 486)
EveryNth(items, n) ==
  [k \in 1..((Len(items) + n - 1) \div n) |-> items[(k - 1) * n + 1]]

\* ApplyFilters with the two steps in the other order: every_nth first.
ApplyFiltersNthFirst(items, idents, fa, every_nth) ==
  LET d == IF every_nth > 1 THEN EveryNth(items, every_nth) ELSE items
      s == IF fa.num < fa.den
           THEN SampleItems(d, [i \in 1..Len(d) |-> idents[(i - 1) * Max(every_nth, 1) + 1]], fa)
           ELSE [raised |-> FALSE, items |-> d]
  IN  [raised |-> s.raised, sampled |-> d, items |-> s.items]

\* Lines 440-489 on a non-empty list: the file_amount step when
\* file_amount < 1.0, then the every_nth step when every_nth > 1.
ApplyFilters(items, idents, fa, every_nth) ==
  LET s == IF fa.num < fa.den THEN SampleItems(items, idents, fa)
           ELSE [raised |-> FALSE, items |-> items]
  IN  [raised |-> s.raised,
       sampled |-> s.items,
       items |-> IF s.raised THEN << >>
                 ELSE IF every_nth > 1 THEN EveryNth(s.items, every_nth)
                 ELSE s.items]

(***************************************************************************)
(* Template resolution (engine.py, _resolve_variable, lines 176-328)       *)
(***************************************************************************)

\* The outcome of a call that ends in an exception the code does not catch.
VRaise == [t |-> "raise"]

S_replace == <<"r", "e", "p", "l", "a", "c", "e">>
S_basename == <<"b", "a", "s", "e", "n", "a", "m", "e">>
S_dirname == <<"d", "i", "r", "n", "a", "m", "e">>
S_map == <<"m", "a", "p">>
S_list == <<"l", "i", "s", "t">>
S_attribute_eq == <<"a", "t", "t", "r", "i", "b", "u", "t", "e", "=">>
S_True == <<"T", "r", "u", "e">>
S_False == <<"F", "a", "l", "s", "e">>
S_None == <<"N", "o", "n", "e">>
Quotes == {"'", "\""}

\* s.lstrip(), s.rstrip(), s.strip()
RECURSIVE LStrip(_)
LStrip(s) == IF s # << >> /\ IsSpace(s[1]) THEN LStrip(Tail(s)) ELSE s
RECURSIVE RStrip(_)
RStrip(s) ==
  IF s # << >> /\ IsSpace(s[Len(s)]) THEN RStrip(SubSeq(s, 1, Len(s) - 1)) ELSE s
Strip(s) == RStrip(LStrip(s))

StartsWith(s, p) == Len(s) >= Len(p) /\ SubSeq(s, 1, Len(p)) = p
EndsWith(s, p) == Len(s) >= Len(p) /\ SubSeq(s, Len(s) - Len(p) + 1, Len(s)) = p

\* s.find(p, start) + 1 with a 1-based start: the first position >= start
\* where p occurs in s, 0 if there is none.
FindFrom(s, p, start) ==
  LET hits == {i \in start..(Len(s) - Len(p) + 1) : SubSeq(s, i, i + Len(p) - 1) = p}
  IN  IF hits = {} THEN 0 ELSE CHOOSE i \in hits : \A j \in hits : i <= j

\* The first position >= start of s that holds a character of the set cs, or
\* Len(s) + 1.
FirstOf(s, cs, start) ==
  LET hits == {i \in start..Len(s) : s[i] \in cs}
  IN  IF hits = {} THEN Len(s) + 1 ELSE CHOOSE i \in hits : \A j \in hits : i <= j

\* The first position >= start of s that holds no white space, or Len(s) + 1.
SkipSpace(s, start) ==
  LET hits == {i \in start..Len(s) : ~IsSpace(s[i])}
  IN  IF hits = {} THEN Len(s) + 1 ELSE CHOOSE i \in hits : \A j \in hits : i <= j

\* s.split(sep) for a one-character separator.
RECURSIVE SplitOn(_, _)
SplitOn(s, sep) ==
  LET i == FirstOf(s, {sep}, 1)
  IN  IF i > Len(s) THEN <<s>>
      ELSE <<SubSeq(s, 1, i - 1)>> \o SplitOn(SubSeq(s, i + 1, Len(s)), sep)

\* s.replace(old, new)
RECURSIVE StrReplace(_, _, _)
StrReplace(s, old, new) ==
  IF old = << >>
  THEN IF s = << >> THEN new ELSE new \o <<s[1]>> \o StrReplace(Tail(s), old, new)
  ELSE LET i == FindFrom(s, old, 1)
       IN  IF i = 0 THEN s
           ELSE SubSeq(s, 1, i - 1) \o new
                  \o StrReplace(SubSeq(s, i + Len(old), Len(s)), old, new)

\* The full-match test failing for every string.
FullMatchNever(value) == [ok |-> FALSE, expr |-> << >>]

\* re.fullmatch(r"^\s*\{\{\s*(?P<expr>[^}]+)\s*\}\}\s*$", value): whether it
\* matches, and the group expr.  Between the braces there is at least one
\* character and no closing brace; the greedy group takes all of it but the
\* leading white space.
FullMatch(value) ==
  LET t == Strip(value)
      mid == SubSeq(t, 3, Len(t) - 2)
      ok == /\ Len(t) >= 5
            /\ StartsWith(t, <<"{", "{">>)
            /\ EndsWith(t, <<"}", "}">>)
            /\ \A i \in 1..Len(mid) : mid[i] # "}"
  IN  [ok |-> ok,
       expr |-> IF ~ok THEN << >>
                ELSE IF LStrip(mid) = << >> THEN <<mid[Len(mid)]>>
                ELSE LStrip(mid)]

\* One match of r"([a-zA-Z0-9_]+|\[\d+\]|\[['\"][^'\"]+['\"]\])" at position
\* i of s: the position after the match, 0 when the pattern does not match
\* at i.
PathPartEnd(s, i) ==
  IF IsIdentChar(s[i])
  THEN FirstOf(s, {Ascii[k] : k \in 1..Len(Ascii)} \ (AlnumChars \cup {"_"}), i)
  ELSE IF s[i] # "[" THEN 0
  ELSE LET d == FirstOf(s, {Ascii[k] : k \in 1..Len(Ascii)} \ Digits, i + 1)
           q == FirstOf(s, Quotes, i + 2)
       IN  IF d > i + 1 /\ d <= Len(s) /\ s[d] = "]" THEN d + 1
           ELSE IF /\ i + 1 <= Len(s) /\ s[i + 1] \in Quotes
                   /\ q > i + 2 /\ q + 1 <= Len(s) /\ s[q + 1] = "]"
                THEN q + 2
                ELSE 0

\* re.findall of that pattern in s, from position i on.
RECURSIVE PathParts(_, _)
PathParts(s, i) ==
  IF i > Len(s) THEN << >>
  ELSE LET e == PathPartEnd(s, i)
       IN  IF e = 0 THEN PathParts(s, i + 1)
           ELSE <<SubSeq(s, i, e - 1)>> \o PathParts(s, e)

\* int(s) for a string of digits.
RECURSIVE DigitsToNat(_)
DigitsToNat(s) ==
  IF s = << >> THEN 0
  ELSE 10 * DigitsToNat(SubSeq(s, 1, Len(s) - 1)) + (Ord(s[Len(s)]) - Ord("0"))

\* One step of the descent of lines 224-238 from var_val along part.  The
\* result is [ok, val, raised]: ok is FALSE for a KeyError, AttributeError,
\* TypeError or IndexError (caught at line 239); raised is TRUE for the
\* ValueError of int(inner), which is not caught.  An identifier part on a
\* value that is no dict is getattr, which finds no attribute of that name.
Descend(var_val, part) ==
  LET miss == [ok |-> FALSE, val |-> VNull, raised |-> FALSE]
      hit(v) == [ok |-> TRUE, val |-> v, raised |-> FALSE]
      inner == SubSeq(part, 2, Len(part) - 1)
      quoted == \/ (StartsWith(inner, <<"'">>) /\ EndsWith(inner, <<"'">>))
                \/ (StartsWith(inner, <<"\"">>) /\ EndsWith(inner, <<"\"">>))
      key == SubSeq(inner, 2, Len(inner) - 1)
  IN  IF StartsWith(part, <<"[">>) /\ EndsWith(part, <<"]">>)
      THEN IF quoted
           THEN IF IsDict(var_val) /\ DictHas(var_val, key)
                THEN hit(DictGet(var_val, key)) ELSE miss
           ELSE IF \E k \in 1..Len(inner) : inner[k] \notin Digits
           THEN [ok |-> FALSE, val |-> VNull, raised |-> TRUE]
           ELSE LET n == DigitsToNat(inner)
                IN  IF IsList(var_val) /\ n < Len(var_val.l) THEN hit(var_val.l[n + 1])
                    ELSE IF IsStr(var_val) /\ n < Len(var_val.s)
                    THEN hit(VStr(<<var_val.s[n + 1]>>))
                    ELSE miss
      ELSE IF IsDict(var_val) /\ DictHas(var_val, part) THEN hit(DictGet(var_val, part))
      ELSE miss

RECURSIVE DescendAll(_, _)
DescendAll(cur, parts) ==
  IF parts = << >> \/ ~cur.ok THEN cur
  ELSE DescendAll(Descend(cur.val, parts[1]), Tail(parts))

\* repr(s) of a string of printable characters: in single quotes, or in
\* double quotes when s holds a single quote and no double quote; the
\* backslash and the quote in use are escaped.
RECURSIVE EscapeFor(_, _)
EscapeFor(s, quote) ==
  IF s = << >> THEN << >>
  ELSE (IF s[1] = "\\" \/ s[1] = quote THEN <<"\\", s[1]>> ELSE <<s[1]>>)
         \o EscapeFor(Tail(s), quote)

StrRepr(s) ==
  LET quote == IF (\E i \in 1..Len(s) : s[i] = "'") /\ ~(\E i \in 1..Len(s) : s[i] = "\"")
               THEN "\"" ELSE "'"
  IN  <<quote>> \o EscapeFor(s, quote) \o <<quote>>

\* ", ".join(parts)
RECURSIVE JoinComma(_)
JoinComma(parts) ==
  IF parts = << >> THEN << >>
  ELSE IF Len(parts) = 1 THEN parts[1]
  ELSE parts[1] \o <<",", " ">> \o JoinComma(Tail(parts))

\* repr(v) and str(v)
RECURSIVE PyRepr(_)
PyRepr(v) ==
  CASE v.t = "null" -> S_None
    [] v.t = "str" -> StrRepr(v.s)
    [] v.t = "num" -> IF v.n < 0 THEN <<"-">> \o NatStr(-v.n) ELSE NatStr(v.n)
    [] v.t = "bool" -> IF v.b THEN S_True ELSE S_False
    [] v.t = "list" ->
         <<"[">> \o JoinComma([i \in 1..Len(v.l) |-> PyRepr(v.l[i])]) \o <<"]">>
    [] v.t = "dict" ->
         <<"{">> \o JoinComma([i \in 1..Len(v.d) |->
                       StrRepr(v.d[i].k) \o <<":", " ">> \o PyRepr(v.d[i].v)])
                 \o <<"}">>

PyStr(v) == IF IsStr(v) THEN v.s ELSE PyRepr(v)

\* re.search(r"replace\(\s*['\"]([^'\"]*)['\"]\s*,\s*['\"]([^'\"]*)['\"]\s*\)", f)
\* tried at the occurrence of "replace(" at position i of f.
ReplaceMatchAt(f, i) ==
  LET n == Len(f)
      p1 == SkipSpace(f, i + 8)
      q1 == FirstOf(f, Quotes, p1 + 1)
      p2 == SkipSpace(f, q1 + 1)
      p3 == SkipSpace(f, p2 + 1)
      q2 == FirstOf(f, Quotes, p3 + 1)
      p4 == SkipSpace(f, q2 + 1)
      ok == /\ p1 <= n /\ f[p1] \in Quotes
            /\ q1 <= n
            /\ p2 <= n /\ f[p2] = ","
            /\ p3 <= n /\ f[p3] \in Quotes
            /\ q2 <= n
            /\ p4 <= n /\ f[p4] = ")"
  IN  [ok |-> ok,
       old |-> IF ok THEN SubSeq(f, p1 + 1, q1 - 1) ELSE << >>,
       new |-> IF ok THEN SubSeq(f, p3 + 1, q2 - 1) ELSE << >>]

RECURSIVE ReplaceMatchFrom(_, _)
ReplaceMatchFrom(f, start) ==
  LET i == FindFrom(f, S_replace \o <<"(">>, start)
  IN  IF i = 0 THEN [ok |-> FALSE, old |-> << >>, new |-> << >>]
      ELSE IF ReplaceMatchAt(f, i).ok THEN ReplaceMatchAt(f, i)
      ELSE ReplaceMatchFrom(f, i + 1)

\* re.search(r"attribute=['\"]([^'\"]+)['\"]", f)
RECURSIVE AttributeMatchFrom(_, _)
AttributeMatchFrom(f, start) ==
  LET i == FindFrom(f, S_attribute_eq, start)
      p == i + Len(S_attribute_eq)
      q == FirstOf(f, Quotes, p + 1)
  IN  IF i = 0 THEN [ok |-> FALSE, attr |-> << >>]
      ELSE IF p <= Len(f) /\ f[p] \in Quotes /\ q > p + 1 /\ q <= Len(f)
      THEN [ok |-> TRUE, attr |-> SubSeq(f, p + 1, q - 1)]
      ELSE AttributeMatchFrom(f, i + 1)

\* One filter applied to var_val (lines 248-280).  list(var_val) raises
\* TypeError for a value that cannot be iterated.
ApplyFilter(var_val, filter_expr) ==
  LET f == Strip(filter_expr)
  IN  IF StartsWith(f, S_replace)
      THEN LET m == ReplaceMatchFrom(f, 1)
           IN  IF m.ok /\ IsStr(var_val) THEN VStr(StrReplace(var_val.s, m.old, m.new))
               ELSE var_val
      ELSE IF f = S_basename
      THEN IF IsStr(var_val) THEN VStr(Basename(var_val.s)) ELSE var_val
      ELSE IF f = S_dirname
      THEN IF IsStr(var_val) THEN VStr(Dirname(var_val.s)) ELSE var_val
      ELSE IF StartsWith(f, S_map)
      THEN LET m == AttributeMatchFrom(f, 1)
           IN  IF m.ok /\ IsList(var_val)
               THEN VList([i \in 1..Len(var_val.l) |->
                             IF IsDict(var_val.l[i]) THEN DictGet(var_val.l[i], m.attr)
                             ELSE VNull])
               ELSE var_val
      ELSE IF f = S_list
      THEN IF IsList(var_val) THEN var_val
           ELSE IF IsStr(var_val) THEN VList([i \in 1..Len(var_val.s) |-> VStr(<<var_val.s[i]>>)])
           ELSE IF IsDict(var_val) THEN VList([i \in 1..Len(var_val.d) |-> VStr(var_val.d[i].k)])
           ELSE VRaise
      ELSE var_val

\* The loop of lines 247-280: the filters from left to right.
RECURSIVE ApplyFilterList(_, _)
ApplyFilterList(var_val, filters) ==
  IF filters = << >> \/ var_val = VRaise THEN var_val
  ELSE ApplyFilterList(ApplyFilter(var_val, filters[1]), Tail(filters))

\* Lines 198-200: outer parentheses are removed.
RECURSIVE StripParens(_)
StripParens(e) ==
  IF StartsWith(e, <<"(">>) /\ EndsWith(e, <<")">>)
  THEN StripParens(Strip(SubSeq(e, 2, Len(e) - 1)))
  ELSE e

\* resolve_expr(expr_str) against context (lines 196-298): the value, None
\* (VNull) when the expression is not found, VRaise when it raises.
ResolveExpr(expr_str, context) ==
  LET e == StripParens(Strip(expr_str))
      parts == IF \E i \in 1..Len(e) : e[i] = "|"
               THEN LET sp == SplitOn(e, "|") IN [i \in 1..Len(sp) |-> Strip(sp[i])]
               ELSE <<Strip(e)>>
      var_expr == parts[1]
      filters == Tail(parts)
      path_parts == PathParts(var_expr, 1)
      walk == DescendAll([ok |-> TRUE, val |-> DictGet(context, path_parts[1]), raised |-> FALSE],
                         Tail(path_parts))
  IN  IF path_parts # << >> /\ DictHas(context, path_parts[1])
      THEN IF walk.raised THEN VRaise
           ELSE IF walk.ok THEN ApplyFilterList(walk.val, filters)
           ELSE VNull
      ELSE IF DictHas(context, var_expr)
      THEN ApplyFilterList(DictGet(context, var_expr), filters)
      ELSE VNull

\* The element of a one-element set.  An operand bound as the element of a
\* set is computed once, however often the operator that uses it reads it.
TheOne(S) == CHOOSE x \in S : TRUE

\* re.sub(r"\{\{\s*([^}]+?)\s*\}\}", substitute, value) from position i on
\* (lines 309-314): [raised, s].  A match starts at "{{", holds at least one
\* character and no closing brace, and ends at the next "}}"; its group is
\* the text between without the white space around it.  A resolved
\* occurrence becomes str(resolved), an unresolved one stays as written.
RECURSIVE SubstituteFrom(_, _, _)
SubstituteFrom(value, i, context) ==
  LET k == FindFrom(value, <<"{", "{">>, i)
      j == FirstOf(value, {"}"}, k + 2)
      ok == j > k + 2 /\ j + 1 <= Len(value) /\ value[j + 1] = "}"
      content == SubSeq(value, k + 2, j - 1)
      group == IF Strip(content) = << >> THEN <<" ">> ELSE Strip(content)
  IN  IF k = 0 THEN [raised |-> FALSE, s |-> SubSeq(value, i, Len(value))]
      ELSE IF ~ok
      THEN TheOne({ [raised |-> rest.raised, s |-> SubSeq(value, i, k) \o rest.s] :
                    rest \in {SubstituteFrom(value, k + 1, context)} })
      ELSE TheOne({ IF resolved = VRaise \/ rest.raised THEN [raised |-> TRUE, s |-> << >>]
                    ELSE [raised |-> FALSE,
                          s |-> SubSeq(value, i, k - 1)
                                  \o (IF resolved = VNull THEN SubSeq(value, k, j + 1)
                                      ELSE PyStr(resolved))
                                  \o rest.s] :
                    resolved \in {ResolveExpr(group, context)},
                    rest \in {SubstituteFrom(value, j + 2, context)} })

\* The recursion limit of _resolve_variable.
MaxDepth == 10

\* The limit test taken one level later.
AtLimitLate(depth) == depth > MaxDepth + 1

\* Line 188: if depth > 10, the value is returned as it is.
AtLimit(depth) == depth > MaxDepth

\* _resolve_variable(value, context, depth)
RECURSIVE Resolve(_, _, _)
ResolveString(value, context, depth) ==
  LET fm == FullMatch(value.s)
  IN  TheOne({ IF resolved = VRaise THEN VRaise
               ELSE IF resolved # VNull
               THEN IF resolved.t \in {"str", "list", "dict"}
                    THEN Resolve(resolved, context, depth + 1)
                    ELSE resolved
               ELSE IF sub.raised THEN VRaise
               ELSE IF sub.s # value.s THEN Resolve(VStr(sub.s), context, depth + 1)
               ELSE VStr(sub.s) :
               resolved \in {IF fm.ok THEN ResolveExpr(fm.expr, context) ELSE VNull},
               sub \in {SubstituteFrom(value.s, 1, context)} })

ResolveValueAt(value, context, depth) ==
  IF AtLimit(depth) THEN value
  ELSE IF IsStr(value) THEN ResolveString(value, context, depth)
  ELSE IF IsList(value)
  THEN TheOne({ IF \E i \in 1..Len(rs) : rs[i] = VRaise THEN VRaise ELSE VList(rs) :
                rs \in {[i \in 1..Len(value.l) |-> Resolve(value.l[i], context, depth)]} })
  ELSE IF IsDict(value)
  THEN TheOne({ IF \E i \in 1..Len(rs) : rs[i].v = VRaise THEN VRaise ELSE VDict(rs) :
                rs \in {[i \in 1..Len(value.d) |->
                           [k |-> value.d[i].k, v |-> Resolve(value.d[i].v, context, depth)]]} })
  ELSE value

Resolve(value, context, depth) ==
  TheOne({ResolveValueAt(v, context, depth) : v \in {value}})

\* The largest element of a non-empty set of numbers.
MaxOf(S) == CHOOSE x \in S : \A y \in S : y <= x

\* The positions of a list or dict whose value _resolve_variable is called
\* on: the comprehension of lines 322-326 stops at the first call that
\* raises.
Visited(values, context, depth) ==
  {i \in 1..Len(values) :
     \A j \in 1..(i - 1) : Resolve(values[j], context, depth) # VRaise}

\* The largest depth with which _resolve_variable is called while
\* _resolve_variable(value, context, depth) runs (lines 303, 317, 322, 325);
\* a call with a depth over the limit logs the warning of line 189.
RECURSIVE DeepestCall(_, _, _)
DeepestCall(value, context, depth) ==
  IF AtLimit(depth) THEN depth
  ELSE IF IsStr(value)
  THEN TheOne({ IF resolved = VRaise THEN depth
                ELSE IF resolved # VNull
                THEN IF resolved.t \in {"str", "list", "dict"}
                     THEN DeepestCall(resolved, context, depth + 1)
                     ELSE depth
                ELSE IF sub.raised THEN depth
                ELSE IF sub.s # value.s THEN DeepestCall(VStr(sub.s), context, depth + 1)
                ELSE depth :
                resolved \in {IF FullMatch(value.s).ok
                              THEN ResolveExpr(FullMatch(value.s).expr, context)
                              ELSE VNull},
                sub \in {SubstituteFrom(value.s, 1, context)} })
  ELSE IF IsList(value)
  THEN MaxOf({depth} \cup {DeepestCall(value.l[i], context, depth) :
                             i \in Visited(value.l, context, depth)})
  ELSE IF IsDict(value)
  THEN MaxOf({depth} \cup
             {DeepestCall(value.d[i].v, context, depth) :
                i \in Visited([k \in 1..Len(value.d) |-> value.d[k].v], context, depth)})
  ELSE depth

(***************************************************************************)
(* Tasks (tasks/filein/filein.py, tasks/delete.py) and their dispatch      *)
(***************************************************************************)

S_filein == <<"f", "i", "l", "e", "i", "n">>
S_delete == <<"d", "e", "l", "e", "t", "e">>
S_convert == <<"c", "o", "n", "v", "e", "r", "t">>
S_inscribe == <<"i", "n", "s", "c", "r", "i", "b", "e">>
S_ffmpeg == <<"f", "f", "m", "p", "e", "g">>
S_pattern == <<"p", "a", "t", "t", "e", "r", "n">>
S_task_results == <<"t", "a", "s", "k", "_", "r", "e", "s", "u", "l", "t", "s">>
S_index == <<"i", "n", "d", "e", "x">>
S_total == <<"t", "o", "t", "a", "l">>
S_first_item == <<"f", "i", "r", "s", "t", "_", "i", "t", "e", "m">>
S_last_item == <<"l", "a", "s", "t", "_", "i", "t", "e", "m">>
S_items == <<"i", "t", "e", "m", "s">>

\* _get_task_class(task_type) raising ValueError: the type names no task.
\* The model runs the tasks filein, delete, convert, inscribe and ffmpeg.
UnknownTaskType(task_type) ==
  ~(IsStr(task_type)
      /\ task_type.s \in {S_filein, S_delete, S_convert, S_inscribe, S_ffmpeg})

\* fnmatch of a name against a pattern whose only wildcard is "*".
RECURSIVE WildMatch(_, _)
WildMatch(pattern, name) ==
  IF pattern = << >> THEN name = << >>
  ELSE IF pattern[1] = "*"
  THEN WildMatch(Tail(pattern), name)
         \/ (name # << >> /\ name[1] # "/" /\ WildMatch(pattern, Tail(name)))
  ELSE name # << >> /\ name[1] = pattern[1] /\ WildMatch(Tail(pattern), Tail(name))

\* sorted(names) for a set of strings
RECURSIVE SortStrings(_)
SortStrings(S) ==
  IF S = {} THEN << >>
  ELSE LET m == CHOOSE a \in S : \A b \in S \ {a} : StrLess(a, b)
       IN  <<m>> \o SortStrings(S \ {m})

\* glob.glob(pattern) followed by matches.sort(), over the files on disk; a
\* leading "*" does not match a name that starts with a dot.
Glob(pattern, files) ==
  SortStrings({f \in files : /\ WildMatch(pattern, f)
                             /\ ~(pattern # << >> /\ pattern[1] = "*" /\ f[1] = ".")})

\* What one invocation of a task does: whether it raised, what it returned,
\* the files it deleted, the files and directories it wrote, and the
\* outputs for which it ran an external tool or saved an image.
Outcome(raised, res, removed, created, invoked) ==
  [raised |-> raised, res |-> res, removed |-> removed, created |-> created,
   invoked |-> invoked]
Raises == Outcome(TRUE, VNull, {}, {}, {})
Returns(res) == Outcome(FALSE, res, {}, {}, {})

\* args.get(key, default)
ArgOr(args, key, default) == IF DictHas(args, key) THEN DictGet(args, key) ELSE default

\* s.lower()
Lower(s) ==
  [i \in 1..Len(s) |->
     IF Ord(s[i]) >= Ord("A") /\ Ord(s[i]) <= Ord("Z") THEN Ascii[Ord(s[i]) + 32]
     ELSE s[i]]

\* s.lstrip(".")
RECURSIVE LStripDots(_)
LStripDots(s) == IF s # << >> /\ s[1] = "." THEN LStripDots(Tail(s)) ELSE s

\* os.path.splitext(p): the extension starts at the last dot of the last
\* component, unless only dots precede it there.
SplitExt(p) ==
  LET b == LastIndexOf(p, "/") + 1
      dot == LastIndexOf(p, ".")
      isExt == dot >= b /\ \E i \in b..(dot - 1) : p[i] # "."
  IN  IF isExt THEN [root |-> SubSeq(p, 1, dot - 1), ext |-> SubSeq(p, dot, Len(p))]
      ELSE [root |-> p, ext |-> << >>]

\* os.makedirs(d, exist_ok=True): d and the directories above it.
RECURSIVE DirsOf(_)
DirsOf(d) == IF d = << >> \/ d = <<"/">> THEN {} ELSE {d} \cup DirsOf(Dirname(d))

\* BaseTask._resolve_path_from_item(item, prioritize_file): the path, "" when
\* there is none.
_resolve_path_from_item(item, prioritize_file) ==
  IF IsStr(item) THEN item.s
  ELSE IF ~IsDict(item) THEN << >>
  ELSE LET keys == IF prioritize_file THEN <<S_src, S_path, S_item, <<"s", "o", "u", "r", "c", "e">>>>
                   ELSE <<S_dst, S_path, S_item>>
           hits == {i \in 1..Len(keys) :
                      DictHas(item, keys[i]) /\ IsStr(DictGet(item, keys[i]))}
           suffix == IF prioritize_file THEN <<"_", "f", "i", "l", "e">> ELSE <<"_", "p", "a", "t", "h">>
           named == {i \in 1..Len(item.d) :
                       IsStr(item.d[i].v) /\ EndsWith(item.d[i].k, suffix)}
           strs == {i \in 1..Len(item.d) : IsStr(item.d[i].v)}
       IN  IF hits # {}
           THEN DictGet(item, keys[CHOOSE i \in hits : \A j \in hits : i <= j]).s
           ELSE IF named # {}
           THEN item.d[CHOOSE i \in named : \A j \in named : i <= j].v.s
           ELSE IF Cardinality(strs) = 1 THEN item.d[CHOOSE i \in strs : TRUE].v.s
           ELSE << >>

\* The argument existing, "replace" when it is not given, and its check
\* by validate_args.
S_existing == <<"e", "x", "i", "s", "t", "i", "n", "g">>
S_skip == <<"s", "k", "i", "p">>
Existing(args) == ArgOr(args, S_existing, VStr(<<"r", "e", "p", "l", "a", "c", "e">>))
ExistingValid(args) == Existing(args) \in {VStr(S_skip), VStr(<<"r", "e", "p", "l", "a", "c", "e">>)}

\* An explicit path argument, or else the path inferred from the item: "" when
\* there is none, VRaise for an argument that os.path cannot take.
PathArg(args, key, prioritize_file) ==
  IF Truthy(DictGet(args, key))
  THEN IF IsStr(DictGet(args, key)) THEN DictGet(args, key) ELSE VRaise
  ELSE VStr(_resolve_path_from_item(DictGet(args, S_item), prioritize_file))

\* No path could be determined.
NoPath(p) == p = VRaise \/ p = VStr(<< >>)

\* The output path with the extension of the requested format.
WithFormat(output_path, output_format) ==
  LET fmt == LStripDots(output_format)
  IN  IF Lower(SplitExt(output_path).ext) # Lower(<<".">> \o fmt)
      THEN SplitExt(output_path).root \o <<".">> \o fmt
      ELSE output_path

\* What the tool, the skip test and makedirs do for one output (convert.py
\* 80-121, the same steps in ffmpeg.py 92-109 and 204-231): an output that is
\* there is skipped; a dry run returns the path; else the directory is made
\* and the tool is run, which writes the output when its inputs are there
\* and fails when they are not.  scratch is what is written for the tool
\* beforehand and removed after it succeeded (the concat list of ffmpeg).
ToolRun(args, output_path, inputs, scratch, dry_run, files) ==
  LET output_dir == Dirname(output_path)
      made == IF output_dir # << >> /\ output_dir \notin files
              THEN DirsOf(output_dir) ELSE {}
  IN  IF Existing(args) = VStr(S_skip) /\ output_path \in files
      THEN Returns(VStr(output_path))
      ELSE IF dry_run THEN Returns(VStr(output_path))
      ELSE IF inputs \subseteq files
      THEN Outcome(FALSE, VStr(output_path), scratch, made \cup {output_path},
                   {output_path})
      ELSE Outcome(TRUE, VNull, {}, made \cup scratch, {output_path})

\* ConvertTask: validate_args and run.
ConvertRun(args, dry_run, files) ==
  LET input_path == PathArg(args, <<"i", "n", "p", "u", "t", "_", "p", "a", "t", "h">>, TRUE)
      output_path == PathArg(args, <<"o", "u", "t", "p", "u", "t", "_", "p", "a", "t", "h">>, FALSE)
      fmt == DictGet(args, <<"o", "u", "t", "p", "u", "t", "_", "f", "o", "r", "m", "a", "t">>)
  IN  IF \/ \E k \in {<<"c", "o", "n", "f", "i", "g", "_", "p", "a", "t", "h">>, <<"i", "n", "p", "u", "t", "_", "s", "p", "a", "c", "e">>, <<"o", "u", "t", "p", "u", "t", "_", "s", "p", "a", "c", "e">>} : ~DictHas(args, k)
         \/ ~DictHas(args, <<"i", "n", "p", "u", "t", "_", "p", "a", "t", "h">>) /\ ~DictHas(args, S_item)
         \/ ~DictHas(args, <<"o", "u", "t", "p", "u", "t", "_", "p", "a", "t", "h">>) /\ ~DictHas(args, S_item)
         \/ ~ExistingValid(args)
      THEN Raises
      ELSE IF NoPath(input_path) \/ NoPath(output_path) \/ (Truthy(fmt) /\ ~IsStr(fmt))
      THEN Raises
      ELSE ToolRun(args,
                   IF Truthy(fmt) THEN WithFormat(output_path.s, fmt.s) ELSE output_path.s,
                   {input_path.s}, {}, dry_run, files)

\* The paths of a list of items, those without a path left out.
RECURSIVE PathsOf(_)
PathsOf(items) ==
  IF items = << >> THEN << >>
  ELSE IF Truthy(items[1]) /\ _resolve_path_from_item(items[1], TRUE) # << >>
  THEN <<_resolve_path_from_item(items[1], TRUE)>> \o PathsOf(Tail(items))
  ELSE PathsOf(Tail(items))

\* FFmpegTask: validate_args and run.  With a list of input files the concat
\* list is written next to the output, for a run that is not a dry run.
FFmpegRun(args, dry_run, files) ==
  LET item == DictGet(args, S_item)
      given == DictGet(args, <<"i", "n", "p", "u", "t", "_", "f", "i", "l", "e", "s">>)
      input_files == IF ~Truthy(given) /\ IsDict(item) /\ DictHas(item, <<"f", "i", "l", "e", "s">>)
                     THEN DictGet(item, <<"f", "i", "l", "e", "s">>) ELSE given
      input_path == IF ~Truthy(DictGet(args, <<"i", "n", "p", "u", "t", "_", "p", "a", "t", "h">>)) /\ ~Truthy(input_files)
                    THEN VStr(_resolve_path_from_item(item, TRUE))
                    ELSE PathArg(args, <<"i", "n", "p", "u", "t", "_", "p", "a", "t", "h">>, TRUE)
      output_path == IF Truthy(DictGet(args, <<"o", "u", "t", "p", "u", "t", "_", "p", "a", "t", "h">>))
                     THEN PathArg(args, <<"o", "u", "t", "p", "u", "t", "_", "p", "a", "t", "h">>, FALSE)
                     ELSE IF IsDict(item) /\ DictHas(item, <<"b", "a", "s", "e", "_", "p", "a", "t", "h">>)
                     THEN IF IsStr(DictGet(item, <<"b", "a", "s", "e", "_", "p", "a", "t", "h">>))
                          THEN DictGet(item, <<"b", "a", "s", "e", "_", "p", "a", "t", "h">>) ELSE VRaise
                     ELSE VStr(_resolve_path_from_item(item, FALSE))
      paths == IF IsList(input_files) THEN PathsOf(input_files.l) ELSE << >>
      container == DictGet(args, <<"c", "o", "n", "t", "a", "i", "n", "e", "r">>)
      target == IF Truthy(container) /\ IsStr(container)
                THEN SplitExt(output_path.s).root \o <<".">> \o LStripDots(container.s)
                ELSE output_path.s
  IN  IF \/ ~DictHas(args, <<"o", "u", "t", "p", "u", "t", "_", "p", "a", "t", "h">>) /\ ~DictHas(args, S_item)
         \/ /\ ~DictHas(args, <<"i", "n", "p", "u", "t", "_", "p", "a", "t", "h">>)
            /\ ~DictHas(args, <<"i", "n", "p", "u", "t", "_", "f", "i", "l", "e", "s">>)
            /\ ~DictHas(args, S_item)
         \/ ~ExistingValid(args)
      THEN Raises
      ELSE IF \/ NoPath(output_path)
              \/ input_path = VRaise
              \/ Truthy(container) /\ ~IsStr(container)
      THEN Raises
      ELSE ToolRun(args, target,
                   IF paths # << >> THEN {paths[i] : i \in 1..Len(paths)}
                   ELSE IF input_path # VStr(<< >>) THEN {input_path.s} ELSE {},
                   IF paths # << >> THEN {target \o <<".", "f", "i", "l", "e", "l", "i", "s", "t", ".", "t", "x", "t">>} ELSE {},
                   dry_run, files)

\* re.sub(r"([._])\d+(\.[a-zA-Z0-9]+)$", r"\g<1>0000\g<2>", path): the frame
\* number of a frame path becomes 0000.
SlateFrame(path) ==
  LET m == FrameMatch(path)
  IN  IF m.ok
      THEN SubSeq(path, 1, Len(m.stem) + 1) \o <<"0", "0", "0", "0">> \o m.ext
      ELSE path

\* The output path of an inscribe task before the extension is looked at
\* (lines 67-89): the argument, or else the path inferred from the item or
\* from the first of the items, with the frame number 0000 for a slate.
InscribeNamed(args) ==
  LET item == DictGet(args, S_item)
      items == DictGet(args, S_items)
      source_item == IF Truthy(item) THEN item
                     ELSE IF IsList(items) /\ Truthy(items) THEN items.l[1]
                     ELSE VNull
  IN  IF Truthy(DictGet(args, <<"o", "u", "t", "p", "u", "t", "_", "p", "a", "t", "h">>))
      THEN PathArg(args, <<"o", "u", "t", "p", "u", "t", "_", "p", "a", "t", "h">>, FALSE)
      ELSE IF ArgOr(args, <<"t", "y", "p", "e">>, VStr(<<"b", "u", "r", "n", "i", "n">>)) = VStr(<<"s", "l", "a", "t", "e">>)
      THEN VStr(SlateFrame(_resolve_path_from_item(source_item, FALSE)))
      ELSE VStr(_resolve_path_from_item(source_item, FALSE))

\* Lines 91-95: the output path gets the extension of the format.
InscribeOutputPath(named, format) ==
  IF EndsWith(Lower(named), <<".">> \o LStripDots(format)) THEN named
  ELSE SplitExt(named).root \o <<".">> \o LStripDots(format)

\* What _handle_slate returns: the slate followed by the input files when
\* there is a list of them, which is inferred from the items of a batch.
SlateResult(args, output_path) ==
  LET given == DictGet(args, <<"i", "n", "p", "u", "t", "_", "f", "i", "l", "e", "s">>)
      items == DictGet(args, S_items)
  IN  IF ~Truthy(given) /\ IsList(items)
      THEN VList(<<VStr(output_path)>>
                   \o [i \in 1..Len(PathsOf(items.l)) |-> VStr(PathsOf(items.l)[i])])
      ELSE IF IsList(given) THEN VList(<<VStr(output_path)>> \o given.l)
      ELSE VStr(output_path)

\* os.makedirs(os.path.dirname(output_path), exist_ok=True) and img.save:
\* makedirs raises for a path without a directory.
SaveImage(output_path, res) ==
  IF Dirname(output_path) = << >> THEN Outcome(TRUE, VNull, {}, {}, {output_path})
  ELSE Outcome(FALSE, res, {}, DirsOf(Dirname(output_path)) \cup {output_path},
               {output_path})

\* _handle_slate
_handle_slate(args, output_path, dry_run) ==
  IF dry_run THEN Returns(SlateResult(args, output_path))
  ELSE SaveImage(output_path, SlateResult(args, output_path))

\* _handle_burnin: the input has to exist unless the run is a dry run.
_handle_burnin(args, output_path, dry_run, files) ==
  LET input_path == _resolve_path_from_item(
                      PyOr(DictGet(args, <<"i", "n", "p", "u", "t", "_", "p", "a", "t", "h">>), DictGet(args, S_item)), TRUE)
  IN  IF input_path = << >> \/ (input_path \notin files /\ ~dry_run) THEN Raises
      ELSE IF dry_run THEN Returns(VStr(output_path))
      ELSE SaveImage(output_path, VStr(output_path))

\* Lines 97-105: an output that is there is skipped, else the image is made.
InscribeOutput(args, output_path, dry_run, files) ==
  IF Existing(args) = VStr(S_skip) /\ output_path \in files
  THEN Returns(VStr(output_path))
  ELSE IF ArgOr(args, <<"t", "y", "p", "e">>, VStr(<<"b", "u", "r", "n", "i", "n">>)) = VStr(<<"s", "l", "a", "t", "e">>)
  THEN _handle_slate(args, output_path, dry_run)
  ELSE _handle_burnin(args, output_path, dry_run, files)

\* InscribeTask: validate_args and run, with Pillow installed.
InscribeRun(args, dry_run, files) ==
  IF \/ /\ ~DictHas(args, <<"o", "u", "t", "p", "u", "t", "_", "p", "a", "t", "h">>)
        /\ ~DictHas(args, S_item)
        /\ ~DictHas(args, S_items)
     \/ ArgOr(args, <<"t", "y", "p", "e">>, VStr(<<"b", "u", "r", "n", "i", "n">>)) \notin {VStr(<<"s", "l", "a", "t", "e">>), VStr(<<"b", "u", "r", "n", "i", "n">>)}
     \/ /\ ArgOr(args, <<"t", "y", "p", "e">>, VStr(<<"b", "u", "r", "n", "i", "n">>)) = VStr(<<"b", "u", "r", "n", "i", "n">>)
        /\ ~DictHas(args, <<"i", "n", "p", "u", "t", "_", "p", "a", "t", "h">>)
        /\ ~DictHas(args, S_item)
        /\ ~DictHas(args, S_items)
     \/ ~DictHas(args, <<"g", "r", "o", "u", "p", "s">>)
     \/ ~ExistingValid(args)
  THEN Raises
  ELSE IF NoPath(InscribeNamed(args)) \/ ~IsStr(ArgOr(args, <<"f", "o", "r", "m", "a", "t">>, VStr(<<"j", "p", "g">>)))
  THEN Raises
  ELSE InscribeOutput(args,
                      InscribeOutputPath(InscribeNamed(args).s,
                                         ArgOr(args, <<"f", "o", "r", "m", "a", "t">>, VStr(<<"j", "p", "g">>)).s),
                      dry_run, files)

\* FileInTask: validate_args and run.
FileInRun(args, files) ==
  IF ~DictHas(args, S_pattern) \/ ~IsStr(DictGet(args, S_pattern))
  THEN Raises
  ELSE LET matches == Glob(DictGet(args, S_pattern).s, files)
       IN  Returns(VList([k \in 1..Len(matches) |-> VStr(matches[k])]))

\* DeleteTask: validate_args and run.  os.remove raises OSError for a file
\* that cannot be removed; a file that is not there is only logged.
DeleteRun(args, dry_run, files, locked) ==
  LET target_path == PyOr(DictGet(args, S_path), DictGet(args, S_item))
  IN  IF ~DictHas(args, S_path) /\ ~DictHas(args, S_item)
      THEN Raises
      ELSE IF ~Truthy(target_path) \/ ~IsStr(target_path)
      THEN Returns(VNull)
      ELSE IF dry_run
      THEN Returns(target_path)
      ELSE IF target_path.s \in files /\ target_path.s \in locked
      THEN Raises
      ELSE Outcome(FALSE, target_path, {target_path.s}, {}, {})

(***************************************************************************)
(* Path mapping (tasks/pathmap/pathmap.py)                                 *)
(***************************************************************************)

\* PathMappingTask._resolve_source(item, input_path, input_key), input_key
\* being a string or None.
_resolve_source(item, input_path, input_key) ==
  IF Truthy(input_path) THEN input_path
  ELSE IF IsStr(item) THEN item
  ELSE IF IsDict(item)
  THEN IF Truthy(input_key) THEN DictGet(item, input_key.s)
       ELSE PyOr(DictGet(item, S_dst), PyOr(DictGet(item, S_src), DictGet(item, S_item)))
  ELSE VNull

\* s.endswith("/") or s.endswith("\\")
EndsWithSeparator(s) == s # << >> /\ s[Len(s)] \in {"/", "\\"}

\* The replacement taken as it is given.
ReplaceAsGiven(search, replace) == replace

\* Lines 56-59 and 98-101: a search that ends with a separator gives its
\* separator to a replacement that ends with none.
WithSeparator(search, replace) ==
  IF EndsWithSeparator(search) /\ ~EndsWithSeparator(replace)
  THEN replace \o <<search[Len(search)]>>
  ELSE replace

\* A regular expression made of plain characters, of "." for any character
\* and of escaped characters: re.compile raises for a pattern that ends
\* within an escape.
RECURSIVE ReValid(_)
ReValid(p) ==
  \/ p = << >>
  \/ p[1] = "\\" /\ Len(p) >= 2 /\ ReValid(SubSeq(p, 3, Len(p)))
  \/ p[1] # "\\" /\ ReValid(Tail(p))

\* What each position of such a pattern matches.
RECURSIVE ReTokens(_)
ReTokens(p) ==
  IF p = << >> THEN << >>
  ELSE IF p[1] = "\\"
  THEN <<[any |-> FALSE, c |-> p[2]]>> \o ReTokens(SubSeq(p, 3, Len(p)))
  ELSE <<[any |-> p[1] = ".", c |-> p[1]]>> \o ReTokens(Tail(p))

\* The pattern matches s at position i.
ReMatchAt(tokens, s, i) ==
  /\ i + Len(tokens) - 1 <= Len(s)
  /\ \A k \in 1..Len(tokens) : tokens[k].any \/ s[i + k - 1] = tokens[k].c

\* re.sub(pattern, repl, s) from position i on, for a replacement without
\* escapes: the matches are taken from the left and do not overlap, and an
\* empty pattern matches before every character and at the end.
RECURSIVE ReSubFrom(_, _, _, _)
ReSubFrom(tokens, repl, s, i) ==
  IF i > Len(s) THEN (IF tokens = << >> THEN repl ELSE << >>)
  ELSE IF ~ReMatchAt(tokens, s, i) THEN <<s[i]>> \o ReSubFrom(tokens, repl, s, i + 1)
  ELSE IF tokens = << >> THEN repl \o <<s[i]>> \o ReSubFrom(tokens, repl, s, i + 1)
  ELSE repl \o ReSubFrom(tokens, repl, s, i + Len(tokens))

\* args.get("regex", False)
UseRegex(args) == Truthy(ArgOr(args, <<"r", "e", "g", "e", "x">>, VBool(FALSE)))

\* The substitution raises: re.sub for an argument that is not a string,
\* for a pattern it cannot compile or for a replacement that ends within an
\* escape; str.replace and str.endswith for an argument that is not a
\* string.
SubstituteRaises(args, path) ==
  \/ ~IsStr(path)
  \/ ~IsStr(DictGet(args, <<"s", "e", "a", "r", "c", "h">>))
  \/ ~IsStr(DictGet(args, <<"r", "e", "p", "l", "a", "c", "e">>))
  \/ /\ UseRegex(args)
     /\ \/ ~ReValid(DictGet(args, <<"s", "e", "a", "r", "c", "h">>).s)
        \/ EndsWith(DictGet(args, <<"r", "e", "p", "l", "a", "c", "e">>).s, <<"\\">>)

\* Lines 52-62 and 118-121: the mapped path.
Substitute(args, path) ==
  IF UseRegex(args)
  THEN ReSubFrom(ReTokens(DictGet(args, <<"s", "e", "a", "r", "c", "h">>).s), DictGet(args, <<"r", "e", "p", "l", "a", "c", "e">>).s, path, 1)
  ELSE StrReplace(path, DictGet(args, <<"s", "e", "a", "r", "c", "h">>).s,
                  WithSeparator(DictGet(args, <<"s", "e", "a", "r", "c", "h">>).s, DictGet(args, <<"r", "e", "p", "l", "a", "c", "e">>).s))

\* Mapped paths grouped by their stem alone.
MappedKeyByStem(mapped_path) ==
  IF FrameMatch(mapped_path).ok
  THEN <<FrameMatch(mapped_path).stem, << >>>>
  ELSE <<mapped_path, << >>>>

\* The key under which reduce_paths groups a mapped path (lines 123-130):
\* stem and extension of a frame path, else the path and "".
MappedKey(mapped_path) ==
  IF FrameMatch(mapped_path).ok
  THEN <<FrameMatch(mapped_path).stem, FrameMatch(mapped_path).ext>>
  ELSE <<mapped_path, << >>>>

\* sorted(group_items, key=...): by the source path, items of equal paths
\* in their order.
RECURSIVE SortedItems(_, _)
SortedItems(group_items, input_key) ==
  IF group_items = << >> THEN << >>
  ELSE LET key(i) == PyOr(_resolve_source(group_items[i], VNull, input_key), VStr(<< >>)).s
           m == CHOOSE i \in 1..Len(group_items) :
                  \A j \in 1..Len(group_items) :
                    /\ j < i => StrLess(key(i), key(j))
                    /\ j > i => ~StrLess(key(j), key(i))
       IN  <<group_items[m]>>
             \o SortedItems([k \in 1..(Len(group_items) - 1) |->
                               IF k < m THEN group_items[k] ELSE group_items[k + 1]],
                            input_key)

\* PathMappingTask.reduce_paths(items): one record for each key, in the
\* order in which the keys come up; VRaise when it raises.
reduce_paths(args, items) ==
  LET input_key == DictGet(args, <<"i", "n", "p", "u", "t", "_", "k", "e", "y">>)
      path(i) == _resolve_source(items[i], VNull, input_key)
      kept == {i \in 1..Len(items) : Truthy(path(i))}
      key(i) == MappedKey(Substitute(args, path(i).s))
      firsts == {i \in kept : \A j \in kept : j < i => key(j) # key(i)}
      nth(n) == CHOOSE i \in firsts : Cardinality({j \in firsts : j < i}) = n - 1
      group(i) == SelectSeq([k \in 1..Len(items) |-> [pos |-> k, item |-> items[k]]],
                            LAMBDA e : e.pos \in kept /\ key(e.pos) = key(i))
  IN  IF \/ ~UseRegex(args) /\ ~IsStr(DictGet(args, <<"s", "e", "a", "r", "c", "h">>))
         \/ /\ ~UseRegex(args)
            /\ EndsWithSeparator(DictGet(args, <<"s", "e", "a", "r", "c", "h">>).s)
            /\ ~IsStr(DictGet(args, <<"r", "e", "p", "l", "a", "c", "e">>))
         \/ \E i \in kept : SubstituteRaises(args, path(i))
      THEN VRaise
      ELSE VList([n \in 1..Cardinality(firsts) |->
                    VDict(<<[k |-> <<"f", "i", "l", "e", "s">>,
                             v |-> VList(SortedItems([k \in 1..Len(group(nth(n))) |->
                                                        group(nth(n))[k].item],
                                                     input_key))],
                            [k |-> <<"b", "a", "s", "e", "_", "p", "a", "t", "h">>, v |-> VStr(key(nth(n))[1])]>>)])

\* PathMappingTask: validate_args and run.  The result is a record
\* {src, dst}, the list of reduce_paths, None when there is no source
\* string, or VRaise.
PathMappingRun(args) ==
  LET items == DictGet(args, S_items)
      source_string == _resolve_source(DictGet(args, S_item), DictGet(args, <<"i", "n", "p", "u", "t", "_", "p", "a", "t", "h">>),
                                       DictGet(args, <<"i", "n", "p", "u", "t", "_", "k", "e", "y">>))
  IN  IF ~DictHas(args, <<"s", "e", "a", "r", "c", "h">>) \/ ~DictHas(args, <<"r", "e", "p", "l", "a", "c", "e">>) THEN VRaise
      ELSE IF Truthy(items) /\ IsList(items) /\ Truthy(DictGet(args, <<"r", "e", "d", "u", "c", "e">>))
      THEN reduce_paths(args, items.l)
      ELSE IF ~Truthy(source_string) \/ ~IsStr(source_string) THEN VNull
      ELSE IF SubstituteRaises(args, source_string) THEN VRaise
      ELSE VDict(<<[k |-> S_src, v |-> source_string],
                   [k |-> S_dst, v |-> VStr(Substitute(args, source_string.s))]>>)

\* run_task_wrapper(task_cls, args, dry_run, task_info): the task is built,
\* which validates its arguments, and run.
run_task_wrapper(task_type, args, dry_run, files, locked) ==
  TheOne({ IF task_type.s = S_filein THEN FileInRun(a, files)
           ELSE IF task_type.s = S_convert THEN ConvertRun(a, dry_run, files)
           ELSE IF task_type.s = S_inscribe THEN InscribeRun(a, dry_run, files)
           ELSE IF task_type.s = S_ffmpeg THEN FFmpegRun(a, dry_run, files)
           ELSE DeleteRun(a, dry_run, files, locked) : a \in {args} })

(***************************************************************************)
(* State.  The filtering step, template resolution and a run of a playbook *)
(* are explored separately; the variables of the parts that are not being  *)
(* explored keep their idle values.                                        *)
(***************************************************************************)

VARIABLES
  fItems,    \* items_to_process on entry of the block (a sequence of values)
  fAmount,   \* self.file_amount as the fraction num / den
  fNth,      \* self.every_nth
  fRes,      \* the outcome of the block: raised, sampled, items
  fPc        \* "start" before the block, "done" after it

filterVars == <<fItems, fAmount, fNth, fRes, fPc>>

VARIABLES
  rValue,    \* the value that is resolved
  rContext,  \* the context: a dict of variables
  rRes,      \* the returned value, VRaise when the call raised
  rPc        \* "start" before the call, "done" after it

resolveVars == <<rValue, rContext, rRes, rPc>>

VARIABLES
  playbook,          \* the tasks of the playbook, in declared order
  file_amount,       \* self.file_amount as the fraction num / den
  every_nth,         \* self.every_nth
  dump_path,         \* dump_path of the config (None when there is none)
  run_no,            \* 1 in the first run of the playbook, 2 when it is run again
  first_results,     \* task_results at the end of the first run
  start_disk,        \* the paths of the files that existed when this run started
  invoked,           \* the outputs a tool was run for, or an image saved, in this run
  dry_run,           \* self.dry_run
  disk,              \* the paths of the files that exist
  readonly,          \* the paths of the files that os.remove cannot remove
  variables,         \* self.variables
  task_results,      \* self.task_results
  task_was_loop,     \* the dict task_was_loop of run: name -> bool
  last_task_name,    \* last_task_name of run: a name or None
  task_i,            \* i of run + 1: the position in the playbook of the task under way
  pc,                \* where run is: "next", "submit", "raising", "collect",
                     \* "batch", "single", "register", "done", "aborted"
  label,             \* logging._crunchize_task_context
  input_ref,         \* input_ref of the task under way (after line 410)
  items_to_process,  \* items_to_process of the task under way
  should_filter,     \* should_filter of the task under way
  mode,              \* the branch of line 494 taken: "fanout", "batch", "single"
  futures,           \* the futures of the fan-out under way, in submission order
  task_output        \* task_output of the task under way

engineVars ==
  <<run_no, first_results, start_disk, invoked,
    playbook, file_amount, every_nth, dump_path, dry_run, disk, readonly, variables,
    task_results, task_was_loop, last_task_name, task_i, pc, label, input_ref,
    items_to_process, should_filter, mode, futures, task_output>>

VARIABLES
  mArgs,     \* the arguments of a path mapping task
  mRes,      \* what run returned, VRaise when the task raised
  mPc        \* "start" before the task is built and run, "done" after it

pathmapVars == <<mArgs, mRes, mPc>>

VARIABLES
  cGiven,    \* the arguments file_amount and every_nth of __init__, None for
             \* one that is not passed
  cConfig,   \* the config of the playbook
  cGlobals,  \* what _load_globals returns
  cRes,      \* raised, or self.file_amount and self.every_nth after __init__
  cPc        \* "start" before __init__, "done" after it

constructVars == <<cGiven, cConfig, cGlobals, cRes, cPc>>

VARIABLES
  kVariables,  \* self.variables when the contexts of a task are built
  kResults,    \* self.task_results at that time
  kInput,      \* items_to_process of the task: a list or another value
  kContexts,   \* the contexts built, one for each invocation
  kPc          \* "start" before the contexts are built, "done" after it

contextVars == <<kVariables, kResults, kInput, kContexts, kPc>>

vars == <<filterVars, resolveVars, engineVars, pathmapVars, constructVars, contextVars>>

FilterIdle ==
  /\ fItems = << >>
  /\ fAmount = [num |-> 1, den |-> 1]
  /\ fNth = 0
  /\ fRes = [raised |-> FALSE, sampled |-> << >>, items |-> << >>]
  /\ fPc = "idle"

ResolveIdle ==
  /\ rValue = VNull
  /\ rContext = VDict(<< >>)
  /\ rRes = VNull
  /\ rPc = "idle"

EngineIdle ==
  /\ playbook = << >>
  /\ file_amount = [num |-> 1, den |-> 1]
  /\ every_nth = 1
  /\ dump_path = VNull
  /\ run_no = 0
  /\ first_results = VNull
  /\ start_disk = {}
  /\ invoked = {}
  /\ dry_run = FALSE
  /\ disk = {}
  /\ readonly = {}
  /\ variables = VDict(<< >>)
  /\ task_results = VDict(<< >>)
  /\ task_was_loop = VDict(<< >>)
  /\ last_task_name = VNull
  /\ task_i = 0
  /\ pc = "idle"
  /\ label = << >>
  /\ input_ref = VNull
  /\ items_to_process = VNull
  /\ should_filter = FALSE
  /\ mode = "none"
  /\ futures = << >>
  /\ task_output = VNull

PathmapIdle ==
  /\ mArgs = VDict(<< >>)
  /\ mRes = VNull
  /\ mPc = "idle"

ConstructIdle ==
  /\ cGiven = [file_amount |-> VNull, every_nth |-> VNull]
  /\ cConfig = VNull
  /\ cGlobals = VDict(<< >>)
  /\ cRes = [raised |-> FALSE, file_amount |-> VNull, every_nth |-> VNull]
  /\ cPc = "idle"

ContextIdle ==
  /\ kVariables = VDict(<< >>)
  /\ kResults = VDict(<< >>)
  /\ kInput = VNull
  /\ kContexts = << >>
  /\ kPc = "idle"

(***************************************************************************)
(* The filtering step on its own: inputs of the file_amount / every_nth    *)
(* block and its result.                                                   *)
(***************************************************************************)

\* The longest single shot and the longest mixed list that are filtered.
MaxFrames == 10
MaxListLen == 3

\* The frame files s.<i>.x of one shot, and the list of its first n frames.
FramePath(stem, i) == VStr(stem \o <<".">> \o NatStr(i) \o <<".", "x">>)
ShotFrames(n) == [i \in 1..n |-> FramePath(<<"s">>, i)]

\* Items of mixed lists: frames of the shots a and b, a path that is not a
\* frame, a transition record, two records without a path, None.
FilterItemPool ==
  { FramePath(<<"a">>, 1), FramePath(<<"a">>, 2), FramePath(<<"b">>, 1),
    VStr(<<"r", "e", "a", "d", "m", "e">>),
    VDict(<< [k |-> S_src, v |-> FramePath(<<"a">>, 3)],
             [k |-> S_dst, v |-> FramePath(<<"o", "/", "a">>, 3)] >>),
    VDict(<< [k |-> <<"k">>, v |-> VStr(<<"v">>)] >>),
    VDict(<< [k |-> <<"q">>, v |-> VStr(<<"w">>)] >>),
    VNull }

SeqsUpTo(S, n) == UNION {[1..m -> S] : m \in 1..n}

\* Lists of path strings with a frame in a directory named single and the
\* file, not a frame, that has the name of the frame's stem.
KeyClashLists ==
  { <<FramePath(<<"s", "i", "n", "g", "l", "e", "/", "a">>, 1), VStr(<<"a">>)>>,
    <<VStr(<<"a">>), FramePath(<<"s", "i", "n", "g", "l", "e", "/", "a">>, 1),
      FramePath(<<"s", "i", "n", "g", "l", "e", "/", "a">>, 2)>>,
    <<FramePath(<<"s", "i", "n", "g", "l", "e", "/", "a">>, 1), VStr(<<"b">>)>> }

FilterInputs ==
  {ShotFrames(n) : n \in 1..MaxFrames} \cup SeqsUpTo(FilterItemPool, MaxListLen)
    \cup KeyClashLists

\* file_amount values in [0, 1] and every_nth values.
FileAmounts ==
  { [num |-> 0, den |-> 1], [num |-> 3, den |-> 10], [num |-> 1, den |-> 2],
    [num |-> 9, den |-> 10], [num |-> 1, den |-> 1] }
EveryNths == {0, 1, 2, 3}

\* An item whose path names a frame of a sequence.
IsFrameItem(item) ==
  /\ IsStr(ItemPath(item))
  /\ ItemPath(item).s # << >>
  /\ FrameMatch(Basename(ItemPath(item).s)).ok

\* The values id(item) can take over a list (line 457): distinct objects
\* have distinct addresses, in no particular order; None is one object.
\* Only the id of an item that is not a frame is ever read.
IdentChoices(items) ==
  LET n == Len(items)
      fresh == {i \in 1..n : items[i] # VNull /\ ~IsFrameItem(items[i])}
      k == Cardinality(fresh)
      ranks == {g \in [fresh -> 1..k] : \A a, b \in fresh : a # b => g[a] # g[b]}
  IN  {[i \in 1..n |-> IF i \in fresh THEN g[i] ELSE 0] : g \in ranks}

FilterInit ==
  /\ fItems \in FilterInputs
  /\ fAmount \in FileAmounts
  /\ fNth \in EveryNths
  /\ fRes = [raised |-> FALSE, sampled |-> << >>, items |-> << >>]
  /\ fPc = "start"
  /\ ResolveIdle
  /\ EngineIdle
  /\ PathmapIdle
  /\ ConstructIdle
  /\ ContextIdle

\* Lines 431-489 for a non-empty list with should_filter set.
FilterItems ==
  /\ fPc = "start"
  /\ fItems # << >>
  /\ \E idents \in IdentChoices(fItems) :
       fRes' = ApplyFilters(fItems, idents, fAmount, fNth)
  /\ fPc' = "done"
  /\ UNCHANGED <<fItems, fAmount, fNth>>
  /\ UNCHANGED <<resolveVars, engineVars, pathmapVars, constructVars, contextVars>>

FilterNext == FilterItems

SpecFilter == FilterInit /\ [][FilterNext]_vars

(***************************************************************************)
(* Template resolution on its own: one call of _resolve_variable at depth  *)
(* 0, as run makes it on the arguments of a task and __init__ on the       *)
(* variables.                                                              *)
(***************************************************************************)

\* Variables of a playbook: a number, a path, a boolean, None, a list and a
\* dict that hold templates, references to other variables, and references
\* that form cycles.
ContextA ==
  VDict(<< [k |-> <<"n">>, v |-> VNum(5)],
           [k |-> <<"s">>, v |-> VStr(<<"/", "i", "n", "/", "a", ".", "1", ".", "x">>)],
           [k |-> <<"b">>, v |-> VBool(TRUE)],
           [k |-> <<"n", "o", "n", "e">>, v |-> VNull],
           [k |-> <<"l">>, v |-> VList(<<VStr(<<"p", "/", "q", ".", "x">>), VStr(<<"{", "{", " ", "n", " ", "}", "}">>)>>)],
           [k |-> <<"d">>, v |-> VDict(<< [k |-> <<"k">>, v |-> VStr(<<"v">>)],
                                      [k |-> <<"r">>, v |-> VStr(<<"{", "{", " ", "s", " ", "}", "}">>)] >>)],
           [k |-> <<"t">>, v |-> VStr(<<"{", "{", " ", "l", " ", "}", "}">>)],
           [k |-> <<"a">>, v |-> VStr(<<"{", "{", "c", "}", "}">>)],
           [k |-> <<"c">>, v |-> VStr(<<"x">>)],
           [k |-> <<"l", "o", "o", "p">>, v |-> VStr(<<"{", "{", " ", "l", "o", "o", "p", " ", "}", "}">>)],
           [k |-> <<"p">>, v |-> VStr(<<"{", "{", " ", "q", " ", "}", "}">>)],
           [k |-> <<"q">>, v |-> VStr(<<"{", "{", " ", "p", " ", "}", "}", "!">>)],
           [k |-> <<"r", "o", "w", "s">>, v |-> VList(<<VDict(<<[k |-> <<"k">>, v |-> VNum(1)]>>),
                                        VDict(<<[k |-> <<"j">>, v |-> VStr(<<"z">>)]>>),
                                        VStr(<<"w">>)>>)] >>)

\* The same names bound to values of other shapes.
ContextB ==
  VDict(<< [k |-> <<"n">>, v |-> VStr(<<"7">>)],
           [k |-> <<"s">>, v |-> VNum(12)],
           [k |-> <<"b">>, v |-> VNull],
           [k |-> <<"n", "o", "n", "e">>, v |-> VBool(FALSE)],
           [k |-> <<"l">>, v |-> VDict(<<[k |-> <<"k">>, v |-> VStr(<<"{", "{", " ", "n", " ", "}", "}">>)]>>)],
           [k |-> <<"d">>, v |-> VList(<<VStr(<<"i", "t", "'", "s">>), VDict(<<[k |-> <<"r">>, v |-> VNum(1)]>>)>>)],
           [k |-> <<"t">>, v |-> VStr(<<"x", "{", "{", " ", "t", " ", "}", "}">>)],
           [k |-> <<"a">>, v |-> VList(<<VStr(<<"{", "{", " ", "c", " ", "}", "}">>)>>)],
           [k |-> <<"c">>, v |-> VStr(<<"{", "{", " ", "a", " ", "}", "}">>)],
           [k |-> <<"l", "o", "o", "p">>, v |-> VList(<< >>)],
           [k |-> <<"p">>, v |-> VStr(<<>>)],
           [k |-> <<"q">>, v |-> VDict(<< >>)] >>)

Contexts == {ContextA, ContextB}

\* Expressions: a variable name, possibly followed by one access, possibly
\* followed by filters.
RootNames ==
  { <<"n">>, <<"s">>, <<"b">>, <<"n", "o", "n", "e">>, <<"l">>, <<"d">>, <<"t">>, <<"a">>, <<"l", "o", "o", "p">>, <<"p">>, <<"r", "o", "w", "s">>, <<"m", "i", "s", "s", "i", "n", "g">> }

Accesses == { <<>>, <<"[", "0", "]">>, <<"[", "1", "]">>, <<".", "k">>, <<"[", "'", "r", "'", "]">> }

FilterTails ==
  { <<>>, <<" ", "|", " ", "b", "a", "s", "e", "n", "a", "m", "e">>, <<" ", "|", " ", "d", "i", "r", "n", "a", "m", "e">>, <<" ", "|", " ", "l", "i", "s", "t">>, <<" ", "|", " ", "r", "e", "p", "l", "a", "c", "e", "(", "'", "a", "'", ",", " ", "'", "b", "'", ")">>,
    <<" ", "|", " ", "m", "a", "p", "(", "a", "t", "t", "r", "i", "b", "u", "t", "e", "=", "'", "k", "'", ")">>, <<" ", "|", " ", "d", "i", "r", "n", "a", "m", "e", " ", "|", " ", "b", "a", "s", "e", "n", "a", "m", "e">>, <<"|", "r", "e", "p", "l", "a", "c", "e", "(", "\"", "/", "\"", ",", " ", "\"", "\"", ")", "|", "l", "i", "s", "t">> }

Expressions == { r \o x \o f : r \in RootNames, x \in Accesses, f \in FilterTails }

\* Strings around an expression: exactly one expression, with and without
\* white space, and strings that hold more than the expression.
Templates(e) ==
  { <<"{", "{", " ">> \o e \o <<" ", "}", "}">>,
    <<"{", "{">> \o e \o <<"}", "}">>,
    <<" ", " ", "{", "{", " ", " ">> \o e \o <<" ", "}", "}", " ">>,
    <<"x", "{", "{", " ">> \o e \o <<" ", "}", "}">>,
    <<"{", "{", " ">> \o e \o <<" ", "}", "}", "{", "{", " ", "n", " ", "}", "}">> }

\* Values to resolve: template strings, a list and a dict of arguments that
\* hold them, values without a template, and an access whose key opens
\* with one quote and closes with the other.
ResolveInputs ==
  UNION { {VStr(v) : v \in Templates(e)} : e \in Expressions }
  \cup { VList(<<VStr(<<"{", "{", " ">> \o r \o <<" ", "}", "}">>), VNum(1)>>) : r \in RootNames }
  \cup { VDict(<<[k |-> S_path, v |-> VStr(<<"{", "{", " ">> \o r \o <<" ", "}", "}">>)]>>) : r \in RootNames }
  \cup { VStr(<<"p", "l", "a", "i", "n">>), VStr(<<>>), VStr(<<"{", "{", " ", "}", "}">>), VStr(<<"{", "{", " ", "n", " ", "}">>), VNum(3), VNull,
       VStr(<<"{", "{", " ", "d", "[", "'", "r", "\"", "]", " ", "}", "}">>), VStr(<<"x", "{", "{", " ", "d", "[", "'", "r", "\"", "]", " ", "}", "}">>), VStr(<<"{", "{", " ", "n", " ", "}", "}", "/", "{", "{", " ", "m", "i", "s", "s", "i", "n", "g", " ", "}", "}", "/", "{", "{", " ", "n", "o", "n", "e", " ", "}", "}">>) }

ResolveInit ==
  /\ rValue \in ResolveInputs
  /\ rContext \in Contexts
  /\ rRes = VNull
  /\ rPc = "start"
  /\ FilterIdle
  /\ EngineIdle
  /\ PathmapIdle
  /\ ConstructIdle
  /\ ContextIdle

\* self._resolve_variable(value, context)
ResolveValue ==
  /\ rPc = "start"
  /\ rRes' = Resolve(rValue, rContext, 0)
  /\ rPc' = "done"
  /\ UNCHANGED <<rValue, rContext>>
  /\ UNCHANGED <<filterVars, engineVars, pathmapVars, constructVars, contextVars>>

ResolveNext == ResolveValue

SpecResolve == ResolveInit /\ [][ResolveNext]_vars

(***************************************************************************)
(* A run of a playbook (engine.py, run, lines 372-650)                     *)
(***************************************************************************)

\* The number of frame files on disk and of worker processes of the pool.
DiskFrames == 3
Workers == 2

\* The frames a.<k>.x of one shot, and a file that is not a frame.
FrameNames == [k \in 1..DiskFrames |-> FramePath(<<"a">>, k).s]
DiskFiles == {FrameNames[k] : k \in 1..DiskFrames} \cup {<<"n", "o", "t", "e", "s">>}

\* self.variables["task_results"] = self.task_results (line 88): the entry
\* is the mapping itself, not a copy of it.
VLive == [t |-> "live"]

\* What reading self.variables gives while task_results is results.
Context(vbls, results) ==
  VDict([k \in 1..Len(vbls.d) |->
           IF vbls.d[k].v = VLive THEN [k |-> vbls.d[k].k, v |-> results]
           ELSE vbls.d[k]])

\* context.update(entries)
RECURSIVE DictUpdate(_, _)
DictUpdate(d, entries) ==
  IF entries = << >> THEN d
  ELSE DictUpdate(DictSet(d, entries[1].k, entries[1].v), Tail(entries))

\* context.update(item): every key of the item is taken.
UnpackItemOverwriting(context, item) ==
  IF IsDict(item) THEN DictUpdate(context, item.d) ELSE context

\* context.update({k: v for k, v in item.items() if k not in context})
UnpackItem(context, item) ==
  IF IsDict(item)
  THEN DictUpdate(context, SelectSeq(item.d, LAMBDA e : ~DictHas(context, e.k)))
  ELSE context

\* One task of a playbook: what task_def.get gives for name, type, args,
\* loop, input and batch (None for a key that is not there).
TaskDef(name, type, args, loop, input, batch) ==
  [name |-> name, type |-> type, args |-> args, loop |-> loop,
   input |-> input, batch |-> batch]

NoArgs == VDict(<< >>)
DeleteType == VStr(S_delete)
FrameList == VList([k \in 1..DiskFrames |-> VStr(FrameNames[k])])

\* First tasks: a file gatherer, one that finds no file, a delete looping
\* over a literal list, a type that names no task, no type at all, a delete
\* over a variable.
FirstTasks ==
  { TaskDef(<<"t", "1">>, VStr(S_filein), VDict(<<[k |-> S_pattern, v |-> VStr(<<"*", ".", "x">>)]>>),
            VNull, VNull, FALSE),
    TaskDef(<<"t", "1">>, VStr(S_filein), VDict(<<[k |-> S_pattern, v |-> VStr(<<"*", ".", "z">>)]>>),
            VNull, VNull, FALSE),
    TaskDef(<<"t", "1">>, DeleteType, NoArgs, FrameList, VNull, FALSE),
    TaskDef(<<"t", "1">>, VStr(<<"n", "o", "s", "u", "c", "h">>), NoArgs, VNull, VNull, FALSE),
    TaskDef(<<"t", "1">>, VNull, NoArgs, VNull, VNull, FALSE),
    TaskDef(<<"t", "1">>, DeleteType, NoArgs, VNull, VStr(<<"f", "i", "l", "e", "s">>), FALSE) }

\* Second tasks: a delete with neither input nor loop, with input, with a
\* loop over the first task's result, with an empty loop, in batch mode,
\* with both input and loop, with an input that does not exist, with a
\* templated path, and with a template that raises for an item.
SecondTasks ==
  { TaskDef(<<"t", "2">>, DeleteType, NoArgs, VNull, VNull, FALSE),
    TaskDef(<<"t", "2">>, DeleteType, NoArgs, VNull, VStr(<<"t", "1">>), FALSE),
    TaskDef(<<"t", "2">>, DeleteType, NoArgs, VStr(<<"{", "{", " ", "t", "1", " ", "}", "}">>), VNull, FALSE),
    TaskDef(<<"t", "2">>, DeleteType, NoArgs, VList(<< >>), VNull, FALSE),
    TaskDef(<<"t", "2">>, DeleteType, VDict(<<[k |-> S_path, v |-> VStr(<<"{", "{", " ", "f", "i", "r", "s", "t", "_", "i", "t", "e", "m", " ", "}", "}">>)]>>),
            VNull, VStr(<<"t", "1">>), TRUE),
    TaskDef(<<"t", "2">>, DeleteType, NoArgs, VList(<<VStr(<<"n", "o", "t", "e", "s">>)>>), VStr(<<"t", "1">>), FALSE),
    TaskDef(<<"t", "2">>, DeleteType, NoArgs, VNull, VStr(<<"n", "o", "p", "e">>), FALSE),
    TaskDef(<<"t", "2">>, DeleteType, VDict(<<[k |-> S_path, v |-> VStr(<<"{", "{", " ", "i", "t", "e", "m", " ", "}", "}">>)]>>),
            VNull, VNull, FALSE),
    TaskDef(<<"t", "2">>, DeleteType, VDict(<<[k |-> S_path, v |-> VStr(<<"{", "{", " ", "i", "n", "d", "e", "x", " ", "|", " ", "l", "i", "s", "t", " ", "}", "}">>)]>>),
            VNull, VNull, FALSE) }

ThirdTasks ==
  { TaskDef(<<"t", "3">>, DeleteType, NoArgs, VNull, VNull, FALSE) }

\* Playbooks whose first task has the name of an entry that self.variables
\* holds from the start: task_results, or the variable files.
NamedPlaybooks ==
  { <<TaskDef(name, VStr(S_filein), VDict(<<[k |-> S_pattern, v |-> VStr(<<"*", ".", "x">>)]>>),
              VNull, VNull, FALSE),
      TaskDef(<<"t", "2">>, DeleteType, NoArgs, VNull, VNull, FALSE)>> :
      name \in {S_task_results, <<"f", "i", "l", "e", "s">>} }

Playbooks ==
  { <<a>> : a \in FirstTasks }
  \cup { <<a, b>> : a \in FirstTasks, b \in SecondTasks }
  \cup { <<a, b, c>> : a \in FirstTasks, b \in SecondTasks, c \in ThirdTasks }
  \cup NamedPlaybooks

\* dump_path of the playbook's config: absent, or the name of a file.
S_state == <<"s", "t", "a", "t", "e">>
DumpPaths == {VNull, VStr(S_state)}

\* The variables of the playbook after __init__ (lines 76-88).
InitialVariables ==
  VDict(<< [k |-> <<"f", "i", "l", "e", "s">>, v |-> FrameList],
           [k |-> S_task_results, v |-> VLive] >>)

EngineInit ==
  /\ playbook \in Playbooks
  /\ file_amount \in {[num |-> 1, den |-> 2], [num |-> 1, den |-> 1]}
  /\ every_nth \in {1, 2}
  /\ dump_path \in DumpPaths
  /\ run_no = 1
  /\ first_results = VNull
  /\ start_disk = DiskFiles
  /\ invoked = {}
  /\ dry_run \in BOOLEAN
  /\ disk = DiskFiles
  /\ readonly \in {{}, {FrameNames[1]}, {FrameNames[2], FrameNames[3]}}
  /\ variables = InitialVariables
  /\ task_results = VDict(<< >>)
  /\ task_was_loop = VDict(<< >>)
  /\ last_task_name = VNull
  /\ task_i = 1
  /\ pc = "next"
  /\ label = << >>
  /\ input_ref = VNull
  /\ items_to_process = VNull
  /\ should_filter = FALSE
  /\ mode = "none"
  /\ futures = << >>
  /\ task_output = VNull
  /\ FilterIdle
  /\ ResolveIdle
  /\ PathmapIdle
  /\ ConstructIdle
  /\ ContextIdle

\* The task under way and its label "[i/N name]" (lines 381-392).
task_def == playbook[task_i]
task_info ==
  <<"[">> \o NatStr(task_i) \o <<"/">> \o NatStr(Len(playbook)) \o <<" ">>
    \o task_def.name \o <<"]">>

configVars == <<playbook, file_amount, every_nth, dump_path, dry_run, readonly>>
registryVars == <<variables, task_results, task_was_loop, last_task_name>>
localVars == <<input_ref, items_to_process, should_filter, mode>>
rerunVars == <<run_no, first_results, start_disk>>
otherVars == <<filterVars, resolveVars, rerunVars, pathmapVars, constructVars, contextVars>>

\* Lines 403-429: input_ref after the implicit chain, the input set (None
\* when there is none, VRaise when resolving the loop raised) and
\* should_filter.
SelectInput(td, last, vbls, results, was_loop) ==
  LET ref == IF ~Truthy(td.input) /\ ~Truthy(td.loop) /\ Truthy(last)
             THEN last ELSE td.input
  IN  IF Truthy(ref)
      THEN IF DictHas(results, ref.s)
           THEN [input_ref |-> ref, items |-> DictGet(results, ref.s),
                 should_filter |-> ~Truthy(DictGet(was_loop, ref.s))]
           ELSE IF DictHas(vbls, ref.s)
           THEN [input_ref |-> ref, items |-> DictGet(Context(vbls, results), ref.s),
                 should_filter |-> TRUE]
           ELSE [input_ref |-> ref, items |-> VNull, should_filter |-> FALSE]
      ELSE IF Truthy(td.loop)
      THEN [input_ref |-> ref, items |-> Resolve(td.loop, Context(vbls, results), 0),
            should_filter |-> TRUE]
      ELSE [input_ref |-> ref, items |-> VNull, should_filter |-> FALSE]

\* The branch of lines 494-495 and 594.
BranchOf(items, batch_mode) ==
  IF Truthy(items) /\ IsList(items)
  THEN IF batch_mode THEN "batch" ELSE "fanout"
  ELSE "single"

\* The end of lines 403-489: the locals of the task and the branch it takes.
Dispatch(sel, items) ==
  /\ input_ref' = sel.input_ref
  /\ items_to_process' = items
  /\ should_filter' = sel.should_filter
  /\ mode' = BranchOf(items, task_def.batch)
  /\ pc' = IF BranchOf(items, task_def.batch) = "fanout" THEN "submit"
           ELSE BranchOf(items, task_def.batch)

\* Lines 388-390: a task without a type is passed over.
SkipNoType ==
  /\ pc = "next"
  /\ task_i <= Len(playbook)
  /\ ~Truthy(task_def.type)
  /\ task_i' = task_i + 1
  /\ UNCHANGED <<configVars, registryVars, localVars, disk, invoked, pc, label, futures,
                 task_output, otherVars>>

\* Lines 392-401: the label is set, the type names no task, the task is
\* passed over.
SkipUnknownType ==
  /\ pc = "next"
  /\ task_i <= Len(playbook)
  /\ Truthy(task_def.type)
  /\ UnknownTaskType(task_def.type)
  /\ label' = task_info
  /\ task_i' = task_i + 1
  /\ UNCHANGED <<configVars, registryVars, localVars, disk, invoked, pc, futures,
                 task_output, otherVars>>

\* Lines 381-489 for a task whose type names a task: the label is set, the
\* input set is selected and filtered.  An exception of the loop template
\* or of sorted() ends the run.
StartTask ==
  /\ pc = "next"
  /\ task_i <= Len(playbook)
  /\ Truthy(task_def.type)
  /\ ~UnknownTaskType(task_def.type)
  /\ label' = task_info
  /\ \E sel \in {SelectInput(task_def, last_task_name, variables, task_results,
                             task_was_loop)} :
       IF sel.items = VRaise
       THEN pc' = "aborted" /\ UNCHANGED localVars
       ELSE IF sel.should_filter /\ Truthy(sel.items) /\ IsList(sel.items)
       THEN \E idents \in IdentChoices(sel.items.l) :
              \E f \in {ApplyFilters(sel.items.l, idents, file_amount, every_nth)} :
                IF f.raised
                THEN pc' = "aborted" /\ UNCHANGED localVars
                ELSE Dispatch(sel, VList(f.items))
       ELSE Dispatch(sel, sel.items)
  /\ futures' = << >>
  /\ task_output' = VNull
  /\ UNCHANGED <<configVars, registryVars, disk, invoked, task_i, otherVars>>

\* Lines 545-560: the context of the item at position idx (from 1).
ItemContext(vbls, results, items, idx) ==
  UnpackItem(
    DictUpdate(Context(vbls, results),
               << [k |-> S_item, v |-> items[idx]],
                  [k |-> S_index, v |-> VNum(idx - 1)],
                  [k |-> S_total, v |-> VNum(Len(items))],
                  [k |-> S_first_item, v |-> items[1]],
                  [k |-> S_last_item, v |-> items[Len(items)]] >>),
    items[idx])

\* Lines 499-511: the context of a batch invocation.
BatchContext(vbls, results, items) ==
  DictUpdate(Context(vbls, results),
             << [k |-> S_items, v |-> VList(items)],
                [k |-> S_total, v |-> VNum(Len(items))],
                [k |-> S_first_item, v |-> items[1]],
                [k |-> S_last_item, v |-> items[Len(items)]] >>)

\* Lines 596-615: the context of a single invocation.
SingleContext(vbls, results, item) ==
  IF item = VNull THEN Context(vbls, results)
  ELSE UnpackItem(
         DictUpdate(Context(vbls, results),
                    << [k |-> S_item, v |-> item],
                       [k |-> S_index, v |-> VNum(0)],
                       [k |-> S_total, v |-> VNum(1)],
                       [k |-> S_first_item, v |-> item],
                       [k |-> S_last_item, v |-> item] >>),
         item)

\* Lines 566-569 and 620-623: item is put into the arguments unless they
\* hold one.  (The entry _variables, which neither task reads, is left out.)
InjectItem(resolved_args, item) ==
  IF IsDict(resolved_args) /\ ~DictHas(resolved_args, S_item)
  THEN DictSet(resolved_args, S_item, item)
  ELSE resolved_args

\* Lines 543-579, one round of the loop: the arguments are resolved for the
\* next item and its invocation is submitted to the pool.  An exception of
\* the resolution leaves the with block.
SubmitItem ==
  /\ pc = "submit"
  /\ Len(futures) < Len(items_to_process.l)
  /\ \E resolved_args \in
         {Resolve(task_def.args,
                  ItemContext(variables, task_results, items_to_process.l,
                              Len(futures) + 1), 0)} :
       IF resolved_args = VRaise
       THEN pc' = "raising" /\ UNCHANGED futures
       ELSE /\ futures' = Append(futures,
                 [state |-> "pending",
                  task |-> task_i,
                  item |-> items_to_process.l[Len(futures) + 1],
                  args |-> InjectItem(resolved_args,
                                      items_to_process.l[Len(futures) + 1]),
                  res |-> VNull,
                  rank |-> 0])
            /\ UNCHANGED pc
  /\ UNCHANGED <<configVars, registryVars, localVars, disk, invoked, task_i, label,
                 task_output, otherVars>>

\* A future taken for done whatever its state.
FutureDoneAlways(f) == TRUE

\* A future is done once its invocation has returned or raised.
FutureDone(f) == f.state \in {"returned", "raised"}

\* A free worker process takes the oldest pending invocation.
WorkerStart ==
  /\ \E k \in DOMAIN futures :
       /\ futures[k].state = "pending"
       /\ \A j \in 1..(k - 1) : futures[j].state # "pending"
       /\ Cardinality({j \in DOMAIN futures : futures[j].state = "running"}) < Workers
       /\ futures' = [futures EXCEPT ![k].state = "running"]
  /\ UNCHANGED <<configVars, registryVars, localVars, disk, invoked, task_i, pc, label,
                 task_output, otherVars>>

\* run_task_wrapper in a worker process returns or raises; rank counts the
\* futures done so far.
WorkerFinish ==
  /\ \E k \in DOMAIN futures :
       /\ futures[k].state = "running"
       /\ \E out \in {run_task_wrapper(playbook[futures[k].task].type,
                                       futures[k].args, dry_run, disk, readonly)} :
            /\ futures' = [futures EXCEPT
                 ![k].state = IF out.raised THEN "raised" ELSE "returned",
                 ![k].res = out.res,
                 ![k].rank = 1 + Cardinality({j \in DOMAIN futures :
                                                FutureDone(futures[j])})]
            /\ disk' = (disk \ out.removed) \cup out.created
            /\ invoked' = invoked \cup out.invoked
  /\ UNCHANGED <<configVars, registryVars, localVars, task_i, pc, label,
                 task_output, otherVars>>

\* Line 542, the end of the with block: ProcessPoolExecutor.__exit__ waits
\* for every submitted invocation, then run goes on, or the exception that
\* left the block goes on.
ExitPool ==
  /\ pc \in {"submit", "raising"}
  /\ pc = "submit" => Len(futures) = Len(items_to_process.l)
  /\ \A k \in DOMAIN futures : FutureDone(futures[k])
  /\ pc' = IF pc = "raising" THEN "aborted" ELSE "collect"
  /\ UNCHANGED <<configVars, registryVars, localVars, disk, invoked, task_i, label,
                 futures, task_output, otherVars>>

\* The results taken in the order in which the invocations finished.
ResultOrderAsCompleted(futs) ==
  [n \in 1..Len(futs) |-> CHOOSE k \in 1..Len(futs) : futs[k].rank = n]

\* for future in futures: the order in which the results are taken.
ResultOrder(futs) == [n \in 1..Len(futs) |-> n]

\* Lines 584-592: the result of a future, None for one that raised.
FutureResult(f) == IF f.state = "returned" THEN f.res ELSE VNull

\* task_output of a fan-out, the bare result when there is one item.
GatherResultsUnwrapped(futs) ==
  IF Len(futs) = 1 THEN FutureResult(futs[1])
  ELSE VList([n \in 1..Len(futs) |-> FutureResult(futs[ResultOrder(futs)[n]])])

\* Lines 582-592: task_output of a fan-out.
GatherResults(futs) ==
  VList([n \in 1..Len(futs) |-> FutureResult(futs[ResultOrder(futs)[n]])])

CollectResults ==
  /\ pc = "collect"
  /\ \A k \in DOMAIN futures : FutureDone(futures[k])
  /\ task_output' = GatherResults(futures)
  /\ pc' = "register"
  /\ UNCHANGED <<configVars, registryVars, localVars, disk, invoked, task_i, label,
                 futures, otherVars>>

\* Lines 519-528 and 627-634: the result of the invocation, None when it
\* raised.
TaskOutput(out) == IF out.raised THEN VNull ELSE out.res

\* Lines 495-528: one invocation on the whole list.
InvokeBatch ==
  /\ pc = "batch"
  /\ \E resolved_args \in
         {Resolve(task_def.args,
                  BatchContext(variables, task_results, items_to_process.l), 0)} :
       IF resolved_args = VRaise
       THEN pc' = "aborted" /\ UNCHANGED <<task_output, disk, invoked>>
       ELSE \E out \in {run_task_wrapper(task_def.type,
                                         DictSet(resolved_args, S_items, items_to_process),
                                         dry_run, disk, readonly)} :
              /\ task_output' = TaskOutput(out)
              /\ disk' = (disk \ out.removed) \cup out.created
              /\ invoked' = invoked \cup out.invoked
              /\ pc' = "register"
  /\ UNCHANGED <<configVars, registryVars, localVars, task_i, label, futures,
                 otherVars>>

\* Lines 594-634: one invocation, on the input when there is one.
InvokeSingle ==
  /\ pc = "single"
  /\ \E resolved_args \in
         {Resolve(task_def.args,
                  SingleContext(variables, task_results, items_to_process), 0)} :
       IF resolved_args = VRaise
       THEN pc' = "aborted" /\ UNCHANGED <<task_output, disk, invoked>>
       ELSE \E out \in {run_task_wrapper(task_def.type,
                                         IF items_to_process # VNull
                                         THEN InjectItem(resolved_args, items_to_process)
                                         ELSE resolved_args,
                                         dry_run, disk, readonly)} :
              /\ task_output' = TaskOutput(out)
              /\ disk' = (disk \ out.removed) \cup out.created
              /\ invoked' = invoked \cup out.invoked
              /\ pc' = "register"
  /\ UNCHANGED <<configVars, registryVars, localVars, task_i, label, futures,
                 otherVars>>

\* Lines 636-647: the result is registered and the label is cleared.
Register ==
  /\ pc = "register"
  /\ task_results' = DictSet(task_results, task_def.name, task_output)
  /\ task_was_loop' = DictSet(task_was_loop, task_def.name,
                              VBool(items_to_process # VNull /\ IsList(items_to_process)))
  /\ variables' = DictSet(variables, task_def.name, task_output)
  /\ last_task_name' = VStr(task_def.name)
  /\ label' = << >>
  /\ task_i' = task_i + 1
  /\ pc' = "next"
  /\ input_ref' = VNull
  /\ items_to_process' = VNull
  /\ should_filter' = FALSE
  /\ mode' = "none"
  /\ futures' = << >>
  /\ task_output' = VNull
  /\ UNCHANGED <<configVars, disk, invoked, otherVars>>

\* _dump_state (lines 144-162): the files on disk after it.  With a
\* dump_path the state file is written, whether or not the run is a dry run.
_dump_state(path, files) == IF Truthy(path) THEN files \cup {path.s} ELSE files

\* Lines 649-650: the loop is over, _dump_state is called.
FinishRun ==
  /\ pc = "next"
  /\ task_i > Len(playbook)
  /\ disk' = _dump_state(dump_path, disk)
  /\ pc' = "done"
  /\ UNCHANGED <<configVars, registryVars, localVars, invoked, task_i, label,
                 futures, task_output, otherVars>>

EngineNext ==
  \/ SkipNoType
  \/ SkipUnknownType
  \/ StartTask
  \/ SubmitItem
  \/ WorkerStart
  \/ WorkerFinish
  \/ ExitPool
  \/ CollectResults
  \/ InvokeBatch
  \/ InvokeSingle
  \/ Register
  \/ FinishRun

Spec == EngineInit /\ [][EngineNext]_vars
(***************************************************************************)
(* A playbook run twice.  After a first run that wrote to the file system  *)
(* the same playbook is run by a new engine: either again on the files the *)
(* first run left, or as a dry run on the files the first run started      *)
(* from.                                                                   *)
(***************************************************************************)

GatherFrames ==
  TaskDef(<<"t", "1">>, VStr(S_filein), VDict(<<[k |-> S_pattern, v |-> VStr(<<"*", ".", "x">>)]>>),
          VNull, VNull, FALSE)

ConvertArgs ==
  <<[k |-> <<"c", "o", "n", "f", "i", "g", "_", "p", "a", "t", "h">>, v |-> VStr(<<"c">>)],
    [k |-> <<"i", "n", "p", "u", "t", "_", "s", "p", "a", "c", "e">>, v |-> VStr(<<"a">>)],
    [k |-> <<"o", "u", "t", "p", "u", "t", "_", "s", "p", "a", "c", "e">>, v |-> VStr(<<"b">>)]>>

SkipExisting == <<[k |-> S_existing, v |-> VStr(S_skip)]>>

\* Tasks that write files: a convert next to its input, a convert into a
\* directory, a convert that replaces its output, a slate for the whole
\* sequence, a burn-in into a directory, a burn-in next to its input, and a
\* video of the whole sequence.
ToolTasks ==
  { TaskDef(<<"t", "2">>, VStr(S_convert),
            VDict(ConvertArgs \o <<[k |-> <<"o", "u", "t", "p", "u", "t", "_", "f", "o", "r", "m", "a", "t">>, v |-> VStr(<<"y">>)]>> \o SkipExisting),
            VNull, VNull, FALSE),
    TaskDef(<<"t", "2">>, VStr(S_convert),
            VDict(ConvertArgs \o <<[k |-> <<"o", "u", "t", "p", "u", "t", "_", "p", "a", "t", "h">>, v |-> VStr(<<"o", "/", "{", "{", " ", "i", "t", "e", "m", " ", "}", "}">>)]>> \o SkipExisting),
            VNull, VNull, FALSE),
    TaskDef(<<"t", "2">>, VStr(S_convert),
            VDict(ConvertArgs \o <<[k |-> <<"o", "u", "t", "p", "u", "t", "_", "f", "o", "r", "m", "a", "t">>, v |-> VStr(<<"y">>)]>>),
            VNull, VNull, FALSE),
    TaskDef(<<"t", "2">>, VStr(S_inscribe),
            VDict(<<[k |-> <<"t", "y", "p", "e">>, v |-> VStr(<<"s", "l", "a", "t", "e">>)],
                    [k |-> <<"g", "r", "o", "u", "p", "s">>, v |-> VList(<< >>)],
                    [k |-> <<"o", "u", "t", "p", "u", "t", "_", "p", "a", "t", "h">>, v |-> VStr(<<"o", "/", "s", ".", "j", "p", "g">>)]>> \o SkipExisting),
            VNull, VNull, TRUE),
    TaskDef(<<"t", "2">>, VStr(S_inscribe),
            VDict(<<[k |-> <<"g", "r", "o", "u", "p", "s">>, v |-> VList(<< >>)],
                    [k |-> <<"o", "u", "t", "p", "u", "t", "_", "p", "a", "t", "h">>, v |-> VStr(<<"o", "/", "{", "{", " ", "i", "t", "e", "m", " ", "}", "}">>)]>> \o SkipExisting),
            VNull, VNull, FALSE),
    TaskDef(<<"t", "2">>, VStr(S_inscribe),
            VDict(<<[k |-> <<"g", "r", "o", "u", "p", "s">>, v |-> VList(<< >>)]>> \o SkipExisting),
            VNull, VNull, FALSE),
    TaskDef(<<"t", "2">>, VStr(S_ffmpeg),
            VDict(<<[k |-> <<"i", "n", "p", "u", "t", "_", "f", "i", "l", "e", "s">>, v |-> VStr(<<"{", "{", " ", "i", "t", "e", "m", "s", " ", "}", "}">>)],
                    [k |-> <<"o", "u", "t", "p", "u", "t", "_", "p", "a", "t", "h">>, v |-> VStr(<<"o", "/", "m", ".", "m", "o", "v">>)]>> \o SkipExisting),
            VNull, VNull, TRUE) }

\* Tasks that look at the files afterwards.
GatherAfter ==
  { TaskDef(<<"t", "3">>, VStr(S_filein), VDict(<<[k |-> S_pattern, v |-> VStr(<<"*", ".", "y">>)]>>),
            VNull, VNull, FALSE),
    TaskDef(<<"t", "3">>, VStr(S_filein), VDict(<<[k |-> S_pattern, v |-> VStr(<<"*", ".", "x">>)]>>),
            VNull, VNull, FALSE) }

\* A delete of every frame followed by a file gatherer, and the playbooks
\* that skip a task or end the run early.
PlainPlaybooks ==
  { <<TaskDef(<<"t", "1">>, DeleteType, NoArgs, FrameList, VNull, FALSE),
      TaskDef(<<"t", "2">>, VStr(S_filein), VDict(<<[k |-> S_pattern, v |-> VStr(<<"*", ".", "x">>)]>>),
              VNull, VNull, FALSE)>>,
    <<TaskDef(<<"t", "0">>, VStr(<<"n", "o", "s", "u", "c", "h">>), NoArgs, VNull, VNull, FALSE), GatherFrames>>,
    <<TaskDef(<<"t", "0">>, VNull, NoArgs, VNull, VNull, FALSE), GatherFrames>>,
    <<GatherFrames,
      TaskDef(<<"t", "2">>, DeleteType, VDict(<<[k |-> S_path, v |-> VStr(<<"{", "{", " ", "i", "n", "d", "e", "x", " ", "|", " ", "l", "i", "s", "t", " ", "}", "}">>)]>>),
              VNull, VNull, FALSE)>> }

RerunPlaybooks ==
  { <<GatherFrames, b>> : b \in ToolTasks }
  \cup { <<GatherFrames, b, c>> : b \in ToolTasks, c \in GatherAfter }
  \cup PlainPlaybooks

RerunInit ==
  /\ playbook \in RerunPlaybooks
  /\ file_amount = [num |-> 1, den |-> 1]
  /\ every_nth = 1
  /\ dump_path \in DumpPaths
  /\ run_no = 1
  /\ first_results = VNull
  /\ start_disk = DiskFiles
  /\ invoked = {}
  /\ dry_run = FALSE
  /\ disk = DiskFiles
  /\ readonly = {}
  /\ variables = InitialVariables
  /\ task_results = VDict(<< >>)
  /\ task_was_loop = VDict(<< >>)
  /\ last_task_name = VNull
  /\ task_i = 1
  /\ pc = "next"
  /\ label = << >>
  /\ input_ref = VNull
  /\ items_to_process = VNull
  /\ should_filter = FALSE
  /\ mode = "none"
  /\ futures = << >>
  /\ task_output = VNull
  /\ FilterIdle
  /\ ResolveIdle
  /\ PathmapIdle
  /\ ConstructIdle
  /\ ContextIdle

\* A new engine is built for the playbook (__init__) and run: as a dry run
\* on the files the first run started from, or else on the files it left.
Rerun ==
  /\ pc = "done"
  /\ run_no = 1
  /\ ~dry_run
  /\ \E dry \in BOOLEAN :
       /\ dry_run' = dry
       /\ disk' = IF dry THEN DiskFiles ELSE disk
       /\ start_disk' = IF dry THEN DiskFiles ELSE disk
  /\ run_no' = 2
  /\ first_results' = task_results
  /\ invoked' = {}
  /\ variables' = InitialVariables
  /\ task_results' = VDict(<< >>)
  /\ task_was_loop' = VDict(<< >>)
  /\ last_task_name' = VNull
  /\ task_i' = 1
  /\ pc' = "next"
  /\ label' = << >>
  /\ input_ref' = VNull
  /\ items_to_process' = VNull
  /\ should_filter' = FALSE
  /\ mode' = "none"
  /\ futures' = << >>
  /\ task_output' = VNull
  /\ UNCHANGED <<playbook, file_amount, every_nth, dump_path, readonly,
                 filterVars, resolveVars, pathmapVars, constructVars, contextVars>>

RerunNext ==
  \/ EngineNext
  \/ Rerun

SpecRerun == RerunInit /\ [][RerunNext]_vars

(***************************************************************************)
(* A path mapping task built and run on its own                            *)
(***************************************************************************)

\* Items: frames of two shots in one directory, a frame of the first shot
\* with another extension, a file that is no frame, a frame under a
\* directory written with a backslash, the record of an earlier mapping, and
\* None.
MapItems ==
  { VStr(<<"/", "i", "n", "/", "a", ".", "1", ".", "x">>), VStr(<<"/", "i", "n", "/", "a", ".", "2", ".", "x">>), VStr(<<"/", "i", "n", "/", "b", "_", "1", ".", "x">>), VStr(<<"/", "i", "n", "/", "a", ".", "3", ".", "y">>),
    VStr(<<"/", "i", "n", "/", "n", "o", "t", "e", "s">>), VStr(<<"i", "n", "\\", "a", ".", "3", ".", "x">>),
    VDict(<<[k |-> S_src, v |-> VStr(<<"/", "i", "n", "/", "a", ".", "1", ".", "x">>)], [k |-> S_dst, v |-> VStr(<<"/", "i", "n", "/", "c", ".", "1", ".", "x">>)]>>),
    VNull }

\* search: a directory without and with its separator, a directory that
\* ends with a backslash, a dot before a digit, and the empty string.
MapSearches == { VStr(<<"/", "i", "n">>), VStr(<<"/", "i", "n", "/">>), VStr(<<"i", "n", "\\">>), VStr(<<".", "1">>), VStr(<< >>) }

\* replace: a directory without and with its separator, the empty string,
\* and a value that is no string.
MapReplaces == { VStr(<<"/", "o", "u", "t">>), VStr(<<"/", "o", "u", "t", "/">>), VStr(<< >>), VNull }

\* The optional arguments regex and input_key.
MapOptions ==
  { << >>,
    <<[k |-> <<"r", "e", "g", "e", "x">>, v |-> VBool(TRUE)]>>,
    <<[k |-> <<"i", "n", "p", "u", "t", "_", "k", "e", "y">>, v |-> VStr(S_src)]>>,
    <<[k |-> <<"r", "e", "g", "e", "x">>, v |-> VBool(TRUE)], [k |-> <<"i", "n", "p", "u", "t", "_", "k", "e", "y">>, v |-> VStr(S_src)]>> }

\* The lists of items of a batch: every list of at most two items, and two
\* longer ones.
MapItemLists ==
  { << >> } \cup { <<a>> : a \in MapItems } \cup { <<a, b>> : a \in MapItems, b \in MapItems }
  \cup { <<VStr(<<"/", "i", "n", "/", "a", ".", "2", ".", "x">>), VStr(<<"/", "i", "n", "/", "b", "_", "1", ".", "x">>), VStr(<<"/", "i", "n", "/", "a", ".", "1", ".", "x">>)>>,
         <<VStr(<<"/", "i", "n", "/", "a", ".", "2", ".", "x">>), VNull, VStr(<<"/", "i", "n", "/", "n", "o", "t", "e", "s">>), VStr(<<"/", "i", "n", "/", "a", ".", "1", ".", "x">>), VStr(<<"/", "i", "n", "/", "n", "o", "t", "e", "s">>)>> }

MapArgs ==
  { VDict(<<[k |-> <<"s", "e", "a", "r", "c", "h">>, v |-> s], [k |-> <<"r", "e", "p", "l", "a", "c", "e">>, v |-> r]>> \o o
            \o <<[k |-> S_item, v |-> i]>>) :
      s \in MapSearches, r \in MapReplaces, o \in MapOptions, i \in MapItems }
  \cup
  { VDict(<<[k |-> <<"s", "e", "a", "r", "c", "h">>, v |-> s], [k |-> <<"r", "e", "p", "l", "a", "c", "e">>, v |-> r]>> \o o
            \o <<[k |-> <<"r", "e", "d", "u", "c", "e">>, v |-> VBool(TRUE)], [k |-> S_items, v |-> VList(l)]>>) :
      s \in MapSearches, r \in MapReplaces, o \in MapOptions, l \in MapItemLists }
  \cup
  { VDict(<<[k |-> <<"s", "e", "a", "r", "c", "h">>, v |-> VStr(<<"/", "i", "n">>)]>>),
    VDict(<<[k |-> <<"s", "e", "a", "r", "c", "h">>, v |-> VStr(<<"/", "i", "n">>)], [k |-> <<"r", "e", "p", "l", "a", "c", "e">>, v |-> VStr(<<"/", "o", "u", "t">>)],
            [k |-> <<"i", "n", "p", "u", "t", "_", "p", "a", "t", "h">>, v |-> VStr(<<"/", "i", "n", "/", "i", "n">>)], [k |-> S_item, v |-> VStr(<<"/", "i", "n", "/", "a", ".", "1", ".", "x">>)]>>) }

PathmapInit ==
  /\ mArgs \in MapArgs
  /\ mRes = VNull
  /\ mPc = "start"
  /\ FilterIdle
  /\ ResolveIdle
  /\ EngineIdle
  /\ ConstructIdle
  /\ ContextIdle

\* PathMappingTask(args).run()
RunPathmap ==
  /\ mPc = "start"
  /\ mRes' = PathMappingRun(mArgs)
  /\ mPc' = "done"
  /\ UNCHANGED <<mArgs, filterVars, resolveVars, engineVars, constructVars,
                 contextVars>>

PathmapNext == RunPathmap

SpecPathmap == PathmapInit /\ [][PathmapNext]_vars

(***************************************************************************)
(* The engine constructed on its own: file_amount and every_nth settled    *)
(* from the arguments, the config of the playbook and the global defaults  *)
(***************************************************************************)

\* The float num / den.
VFloat(num, den) == [t |-> "float", num |-> num, den |-> den]

\* v == 1.0
IsOne(v) == v.num = v.den

\* d.get(key, default): the default only when the key is absent.
DictGetOr(d, key, default) == IF DictHas(d, key) THEN DictGet(d, key) ELSE default

\* playbook_config = self.playbook.get("config") or {}  (line 61)
PlaybookConfig(config) == IF Truthy(config) THEN config ELSE VDict(<< >>)

\* Lines 59-64: self.every_nth from the argument, the config, the globals.
ResolveEveryNth(given_nth, config, globals) ==
  IF given_nth # VNull THEN given_nth
  ELSE IF DictGet(PlaybookConfig(config), <<"e", "v", "e", "r", "y", "_", "n", "t", "h">>) # VNull
       THEN DictGet(PlaybookConfig(config), <<"e", "v", "e", "r", "y", "_", "n", "t", "h">>)
       ELSE DictGetOr(globals, <<"e", "v", "e", "r", "y", "_", "n", "t", "h">>, VNum(1))

\* Lines 68-71: the file_amount read from the config, then from the globals.
ConfigFileAmount(config, globals) ==
  IF DictGet(PlaybookConfig(config), <<"f", "i", "l", "e", "_", "a", "m", "o", "u", "n", "t">>) # VNull
  THEN DictGet(PlaybookConfig(config), <<"f", "i", "l", "e", "_", "a", "m", "o", "u", "n", "t">>)
  ELSE DictGetOr(globals, <<"f", "i", "l", "e", "_", "a", "m", "o", "u", "n", "t">>, VFloat(1, 1))

\* CrunchizeEngine.__init__ (lines 39-71) called with the file_amount
\* given_amount and the every_nth given_nth, an int or None.
\* playbook_config is assigned at line 61 only, inside
\* "if self.every_nth is None"; line 68 reads it whenever file_amount is
\* 1.0, which raises UnboundLocalError when every_nth was given.
__init__(given_amount, given_nth, config, globals) ==
  IF IsOne(given_amount) /\ given_nth # VNull
  THEN [raised |-> TRUE, file_amount |-> VNull, every_nth |-> VNull]
  ELSE [raised |-> FALSE,
        file_amount |-> IF IsOne(given_amount) THEN ConfigFileAmount(config, globals)
                        ELSE given_amount,
        every_nth |-> ResolveEveryNth(given_nth, config, globals)]

\* The default of the parameter file_amount (line 43) and of the option
\* --file-amount (cli.py line 54).
FileAmountOr(given) == IF given = VNull THEN VFloat(1, 1) ELSE given

\* Values given to the constructor: None stands for an argument left out.
GivenFileAmounts == {VNull, VFloat(1, 1), VFloat(1, 2)}
GivenEveryNths == {VNull, VNum(2)}

\* The config of the playbook: absent, or a mapping with any of the two keys.
ConfigEntries(key, values) == {<< >>} \cup {<<[k |-> key, v |-> v]>> : v \in values}

Configs ==
  {VNull} \cup
  {VDict(f \o n) : f \in ConfigEntries(<<"f", "i", "l", "e", "_", "a", "m", "o", "u", "n", "t">>, {VFloat(1, 4), VFloat(1, 1)}),
                   n \in ConfigEntries(<<"e", "v", "e", "r", "y", "_", "n", "t", "h">>, {VNum(3)})}

\* What _load_globals returns: {} without a file, else its mapping.
Globals ==
  {VDict(f \o n) : f \in ConfigEntries(<<"f", "i", "l", "e", "_", "a", "m", "o", "u", "n", "t">>, {VFloat(3, 4)}),
                   n \in ConfigEntries(<<"e", "v", "e", "r", "y", "_", "n", "t", "h">>, {VNum(4)})}

ConstructInit ==
  /\ cGiven \in [file_amount : GivenFileAmounts, every_nth : GivenEveryNths]
  /\ cConfig \in Configs
  /\ cGlobals \in Globals
  /\ cRes = [raised |-> FALSE, file_amount |-> VNull, every_nth |-> VNull]
  /\ cPc = "start"
  /\ FilterIdle
  /\ ResolveIdle
  /\ EngineIdle
  /\ PathmapIdle
  /\ ContextIdle

\* CrunchizeEngine(playbook, file_amount=..., every_nth=...)
Construct ==
  /\ cPc = "start"
  /\ cRes' = __init__(FileAmountOr(cGiven.file_amount), cGiven.every_nth,
                            cConfig, cGlobals)
  /\ cPc' = "done"
  /\ UNCHANGED <<cGiven, cConfig, cGlobals, filterVars, resolveVars, engineVars,
                 pathmapVars, contextVars>>

\* crunchize run [--file-amount F] PLAYBOOK (cli.py lines 51-68): the command
\* line has no option for every_nth and passes file_amount only.
CliRun ==
  /\ cPc = "start"
  /\ cGiven.every_nth = VNull
  /\ cRes' = __init__(FileAmountOr(cGiven.file_amount), VNull, cConfig, cGlobals)
  /\ cPc' = "run"
  /\ UNCHANGED <<cGiven, cConfig, cGlobals, filterVars, resolveVars, engineVars,
                 pathmapVars, contextVars>>

ConstructNext == Construct \/ CliRun

SpecConstruct == ConstructInit /\ [][ConstructNext]_vars

(***************************************************************************)
(* The contexts of the invocations of one task, built on their own         *)
(* (engine.py, run, lines 543-563 and 596-617)                             *)
(***************************************************************************)

\* The keys an item may hold: the five the engine sets, a variable of the
\* playbook, the name of an earlier task, task_results, and two keys of its
\* own.
ItemKeys ==
  << S_item, S_index, S_total, S_first_item, S_last_item, <<"f", "i", "l", "e", "s">>, <<"t", "1">>,
     S_task_results, S_src, <<"n", "o", "t", "e">> >>

\* A key/value map with the keys of ItemKeys at the positions ks; the value
\* of a key tells that it comes from the item.
MapItem(ks) ==
  VDict([n \in 1..Cardinality(ks) |->
           [k |-> ItemKeys[CHOOSE i \in ks : Cardinality({j \in ks : j < i}) = n - 1],
            v |-> VStr(<<"o", "f", " ", "i", "t", "e", "m", " ">>
                       \o ItemKeys[CHOOSE i \in ks : Cardinality({j \in ks : j < i}) = n - 1])]])

KeyedItems == {MapItem(ks) : ks \in SUBSET (1..Len(ItemKeys))}

\* The input set: a list of one or two items, which is fanned out, or a
\* value that is no list or an empty list, which is the item of a single
\* invocation.
ContextInputs ==
  {VList(<<a>>) : a \in KeyedItems}
    \cup {VList(<<a, b>>) : a \in KeyedItems,
                            b \in {VStr(<<"a", ".", "1", ".", "x">>), MapItem({1, 6, 10})}}
    \cup {VList(<<VStr(<<"a", ".", "1", ".", "x">>), a>>) : a \in KeyedItems}
    \cup KeyedItems
    \cup {VStr(<<"a", ".", "1", ".", "x">>), VList(<< >>), VNum(0)}

\* self.variables: a variable of the playbook, the result of an earlier
\* task, the live task_results, and possibly a variable with the name of an
\* entry the engine sets.
ContextVariables ==
  {VDict(<<[k |-> <<"f", "i", "l", "e", "s">>, v |-> VList(<<VStr(<<"a", ".", "1", ".", "x">>)>>)],
           [k |-> S_task_results, v |-> VLive],
           [k |-> <<"t", "1">>, v |-> VStr(<<"a", ".", "1", ".", "x">>)]>> \o more) :
     more \in {<< >>, <<[k |-> S_index, v |-> VStr(<<"o", "f", " ", "v", "a", "r", "s">>)]>>,
               <<[k |-> S_item, v |-> VStr(<<"o", "f", " ", "v", "a", "r", "s">>)]>>}}

ContextInit ==
  /\ kVariables \in ContextVariables
  /\ kResults = VDict(<<[k |-> <<"t", "1">>, v |-> VStr(<<"a", ".", "1", ".", "x">>)]>>)
  /\ kInput \in ContextInputs
  /\ kContexts = << >>
  /\ kPc = "start"
  /\ FilterIdle
  /\ ResolveIdle
  /\ EngineIdle
  /\ PathmapIdle
  /\ ConstructIdle

\* Lines 543-563: the contexts of a fan-out, one for each item.
BuildItemContexts ==
  /\ kPc = "start"
  /\ BranchOf(kInput, FALSE) = "fanout"
  /\ kContexts' = [idx \in 1..Len(kInput.l) |->
                     ItemContext(kVariables, kResults, kInput.l, idx)]
  /\ kPc' = "done"
  /\ UNCHANGED <<kVariables, kResults, kInput, filterVars, resolveVars, engineVars,
                 pathmapVars, constructVars>>

\* Lines 596-617: the context of a single invocation.
BuildSingleContext ==
  /\ kPc = "start"
  /\ BranchOf(kInput, FALSE) = "single"
  /\ kContexts' = <<SingleContext(kVariables, kResults, kInput)>>
  /\ kPc' = "done"
  /\ UNCHANGED <<kVariables, kResults, kInput, filterVars, resolveVars, engineVars,
                 pathmapVars, constructVars>>

ContextNext == BuildItemContexts \/ BuildSingleContext

SpecContext == ContextInit /\ [][ContextNext]_vars





(***************************************************************************)
(* Properties of the filtering step                                        *)
(***************************************************************************)

\* floor(n * f) for f = fa.num / fa.den, by its defining inequalities.
FloorOfProduct(n, fa) ==
  CHOOSE m \in 0..(n * fa.num) : m * fa.den <= n * fa.num /\ n * fa.num < (m + 1) * fa.den

\* k = max(min(2, n), floor(n * f))
TargetCount(n, fa) ==
  LET low == IF n < 2 THEN n ELSE 2
      fl == FloorOfProduct(n, fa)
  IN  IF fl > low THEN fl ELSE low

\* round(j * (n - 1) / (k - 1)) for k >= 2: the integer nearest to the
\* quotient, the even one of the two when the quotient lies half way.
NearestIndex(j, n, k) ==
  CHOOSE i \in 0..(n - 1) :
    LET d == 2 * (i * (k - 1) - j * (n - 1))
    IN  \/ (-(k - 1) < d /\ d < k - 1)
        \/ (d \in {k - 1, -(k - 1)} /\ i % 2 = 0)

\* The sample of a single shot of n frames that the stride rule describes.
StrideSample(frames, fa) ==
  LET n == Len(frames)
      k == TargetCount(n, fa)
  IN  IF k >= n THEN frames
      ELSE [j \in 1..k |-> frames[NearestIndex(j - 1, n, k) + 1]]

\* The input is one shot of n different frames.
IsSingleShot(items) == \E n \in 1..Len(items) : items = ShotFrames(n)

FractionBetween0And1(fa) == 0 < fa.num /\ fa.num < fa.den

\* C7: for a single shot of n frames and a file_amount f in (0,1) the
\* file_amount step keeps exactly k = max(min(2,n), floor(n*f)) frames, the
\* ones at the indices round(j*(n-1)/(k-1)), j = 0..k-1 (all n frames when
\* k >= n); the first and the last frame are kept; 10 frames with f = 0.3
\* keep the indices 0, 4 and 9.
C7_StrideSampling ==
  (fPc = "done" /\ IsSingleShot(fItems) /\ FractionBetween0And1(fAmount)) =>
    /\ ~fRes.raised
    /\ Len(fRes.sampled) = TargetCount(Len(fItems), fAmount)
    /\ fRes.sampled = StrideSample(fItems, fAmount)
    /\ fRes.sampled[1] = fItems[1]
    /\ fRes.sampled[Len(fRes.sampled)] = fItems[Len(fItems)]
    /\ (Len(fItems) = 10 /\ fAmount = [num |-> 3, den |-> 10]) =>
         fRes.sampled = <<fItems[1], fItems[5], fItems[10]>>

\* Ten frames sampled with file_amount 0.3: frames 0, 4 and 9 are kept.
C7_Witness ==
  /\ fPc = "done"
  /\ fItems = ShotFrames(10)
  /\ fAmount = [num |-> 3, den |-> 10]
  /\ fRes.sampled = <<FramePath(<<"s">>, 1), FramePath(<<"s">>, 5), FramePath(<<"s">>, 10)>>

\* The shot an item belongs to: directory, stem and extension of a frame
\* path; an item that names no frame is a shot of its own.
ShotOf(item) ==
  IF IsFrameItem(item)
  THEN LET path == ItemPath(item).s
           m == FrameMatch(Basename(path))
       IN  <<"shot", Dirname(path), m.stem, m.ext>>
  ELSE <<"single", item>>

\* The different frames of the shot sh in a list.
FramesOf(items, sh) == {items[i] : i \in {j \in 1..Len(items) : ShotOf(items[j]) = sh}}

\* xs is a subsequence of ys: ys with some elements left out.
RECURSIVE IsSubsequence(_, _)
IsSubsequence(xs, ys) ==
  IF xs = << >> THEN TRUE
  ELSE IF ys = << >> THEN FALSE
  ELSE IF xs[1] = ys[1] THEN IsSubsequence(Tail(xs), Tail(ys))
  ELSE IsSubsequence(xs, Tail(ys))

\* The elements of xs that belong to the shot sh, in their order.
ShotPart(xs, sh) == PickPositions(xs, {i \in 1..Len(xs) : ShotOf(xs[i]) = sh})

\* C8: with file_amount < 1.0 every shot of the input keeps at least
\* min(2, shot size) of its frames, and the kept frames of a shot are in the
\* order they have in the input.
C8_EveryShotKeepsTwo ==
  (fPc = "done" /\ fAmount.num < fAmount.den /\ ~fRes.raised) =>
    \A sh \in {ShotOf(fItems[i]) : i \in 1..Len(fItems)} :
      /\ Cardinality(FramesOf(fRes.sampled, sh)) >=
           Min(2, Cardinality(FramesOf(fItems, sh)))
      /\ IsSubsequence(ShotPart(fRes.sampled, sh), ShotPart(fItems, sh))

\* C9: with every_nth = N > 1 the step keeps the elements at the indices
\* 0, N, 2N, ... of the list left by the file_amount step, in order; with
\* N <= 1 it removes nothing; the file_amount step comes first (for a single
\* shot the result is every N-th element of the stride sample); 10 frames
\* with file_amount 1.0 and every_nth 3 keep the indices 0, 3, 6 and 9.
C9_EveryNthAfterSampling ==
  (fPc = "done" /\ ~fRes.raised) =>
    LET base == fRes.sampled
        n == Len(base)
        kept == {i \in 0..(n - 1) : i % fNth = 0}
    IN  /\ fNth > 1 =>
             /\ Len(fRes.items) = Cardinality(kept)
             /\ \A m \in 1..Len(fRes.items) : fRes.items[m] = base[(m - 1) * fNth + 1]
        /\ fNth <= 1 => fRes.items = base
        /\ fAmount.num = fAmount.den => base = fItems
        /\ (IsSingleShot(fItems) /\ FractionBetween0And1(fAmount) /\ fNth > 1) =>
             LET st == StrideSample(fItems, fAmount)
             IN  /\ Len(fRes.items) = (Len(st) + fNth - 1) \div fNth
                 /\ \A m \in 1..Len(fRes.items) : fRes.items[m] = st[(m - 1) * fNth + 1]
        /\ (Len(fItems) = 10 /\ IsSingleShot(fItems)
              /\ fAmount = [num |-> 1, den |-> 1] /\ fNth = 3) =>
             fRes.items = <<fItems[1], fItems[4], fItems[7], fItems[10]>>

\* Ten frames, file_amount 1.0, every_nth 3: frames 0, 3, 6 and 9 are kept.
C9_Witness ==
  /\ fPc = "done"
  /\ fItems = ShotFrames(10)
  /\ fAmount = [num |-> 1, den |-> 1]
  /\ fNth = 3
  /\ fRes.items = <<fItems[1], fItems[4], fItems[7], fItems[10]>>

(***************************************************************************)
(* Properties of template resolution                                       *)
(***************************************************************************)

\* A string that is exactly one {{ expr }}, possibly padded with white
\* space, and the expression in it.
IsOneExpression(s) ==
  LET body == Strip(s)
  IN  /\ Len(body) >= 5
      /\ SubSeq(body, 1, 2) = <<"{", "{">>
      /\ SubSeq(body, Len(body) - 1, Len(body)) = <<"}", "}">>
      /\ \A i \in 3..(Len(body) - 2) : body[i] # "}"

ExpressionOf(s) == LET body == Strip(s) IN Strip(SubSeq(body, 3, Len(body) - 2))

\* The value the expression of the resolved string stands for.
Target == ResolveExpr(ExpressionOf(rValue.s), rContext)

WholeExpressionResolved ==
  /\ rPc = "done"
  /\ IsStr(rValue)
  /\ IsOneExpression(rValue.s)
  /\ Target \notin {VNull, VRaise}

\* C10: when the resolved string is exactly one {{ expr }} and the
\* expression resolves, the result is the target value itself: a number or a
\* boolean is returned as it is, not as its string form, and a string, list
\* or mapping target is returned resolved again, a list staying a list and
\* a mapping a mapping.
C10_RawTypePreserved ==
  WholeExpressionResolved =>
    /\ Target.t \in {"num", "bool"} => rRes = Target
    /\ Target.t \in {"str", "list", "dict"} => rRes = Resolve(Target, rContext, 1)
    /\ Target.t \in {"list", "dict"} /\ rRes # VRaise => rRes.t = Target.t

\* A whole-string expression whose target is a list that holds a template:
\* the result is a list, and its template has been resolved.
C10_Witness ==
  /\ WholeExpressionResolved
  /\ Target.t = "list"
  /\ rRes.t = "list"
  /\ Len(rRes.l) = Len(Target.l)
  /\ rRes # Target

(***************************************************************************)
(* Properties of a run                                                     *)
(***************************************************************************)

\* The names of the playbook's tasks, in declared order.
TaskNames == [k \in 1..Len(playbook) |-> playbook[k].name]

\* A task is under way: it has been started and is not yet registered.
TaskUnderWay == pc \in {"submit", "raising", "collect", "batch", "single", "register"}

\* C1: when the run has ended, the keys of task_results are exactly the
\* names of the playbook's tasks, in declared order.
C1_ResultsKeyedByTaskNames ==
  pc = "done" => DictKeys(task_results) = TaskNames

\* C2: when a fan-out over the items a_1 .. a_n has been collected, the
\* result is a list of n entries; entry k belongs to the invocation that was
\* submitted for a_k, which has run to its end: it is that invocation's
\* result, or null if it raised, in whatever order the workers finished and
\* whichever other items failed.  A delete that is given no arguments
\* returns the path it was given as item.  No invocation that raised ends
\* the run: a fan-out ends the run only from inside the submission loop,
\* when resolving the arguments for an item raised before that item was
\* submitted.
C2_FanOutResultsInSubmissionOrder ==
  /\ (pc = "aborted" /\ mode = "fanout") => Len(futures) < Len(items_to_process.l)
  /\ (pc = "collect" /\ mode = "fanout") =>
       \A k \in 1..Len(futures) : futures[k].state \in {"returned", "raised"}
  /\ (pc = "register" /\ mode = "fanout") =>
       /\ IsList(task_output)
       /\ Len(task_output.l) = Len(items_to_process.l)
       /\ Len(futures) = Len(items_to_process.l)
       /\ \A k \in 1..Len(futures) :
            /\ futures[k].item = items_to_process.l[k]
            /\ futures[k].state \in {"returned", "raised"}
            /\ futures[k].state = "raised" => task_output.l[k] = VNull
            /\ futures[k].state = "returned" => task_output.l[k] = futures[k].res
            /\ (/\ futures[k].state = "returned"
                /\ task_def.args = NoArgs
                /\ IsStr(futures[k].item)) => task_output.l[k] = futures[k].item

\* A collected fan-out in which one invocation raised, another returned, and
\* a later submitted invocation finished before an earlier one.
C2_Witness ==
  /\ pc = "register"
  /\ mode = "fanout"
  /\ \E j, k \in 1..Len(futures) :
       /\ j < k
       /\ futures[j].rank > futures[k].rank
       /\ futures[j].state = "raised"
       /\ futures[k].state = "returned"
       /\ task_output.l[j] = VNull
       /\ task_output.l[k] = futures[k].item

\* The tasks before position n that have a type that names a task.
RunnableBefore(n) ==
  {j \in 1..(n - 1) : Truthy(playbook[j].type) /\ ~UnknownTaskType(playbook[j].type)}

\* C3: an invocation that has not finished belongs to the task under way,
\* and run is inside that task's with block; whenever run is at a task (its
\* input set is being selected, its arguments resolved or it is invoked),
\* no invocation of an earlier task exists any more and every earlier task
\* that ran has its result registered.
C3_TasksStrictlySequential ==
  /\ \A k \in 1..Len(futures) :
       /\ futures[k].task = task_i
       /\ futures[k].state \in {"pending", "running"} => pc \in {"submit", "raising"}
  /\ pc \in {"next", "done"} => futures = << >>
  /\ \A j \in RunnableBefore(task_i) : DictHas(task_results, playbook[j].name)

\* The second task fans out, one of its invocations is running, and the
\* first task, which fanned out too, is registered.
C3_Witness ==
  /\ pc = "submit"
  /\ task_i = 2
  /\ \E k \in 1..Len(futures) : futures[k].state = "running"
  /\ DictHas(task_results, playbook[1].name)
  /\ Truthy(DictGet(task_was_loop, playbook[1].name))

\* The tasks whose registered result is the input set of the task under
\* way: the task named by input_ref, or the task named by a loop that is
\* exactly one {{ name }}.
Producers ==
  {name \in {TaskNames[k] : k \in 1..Len(playbook)} :
     /\ DictHas(task_results, name)
     /\ \/ Truthy(input_ref) /\ input_ref.s = name
        \/ /\ ~Truthy(input_ref)
           /\ IsStr(task_def.loop)
           /\ IsOneExpression(task_def.loop.s)
           /\ ExpressionOf(task_def.loop.s) = name}

\* The filter block of lines 432-489 has been entered with a filter that
\* removes items.
FiltersApplied ==
  /\ TaskUnderWay
  /\ should_filter
  /\ IsList(items_to_process)
  /\ (file_amount.num < file_amount.den \/ every_nth > 1)

\* C4: the filters are applied to the input set of a task only when that
\* set was not produced by a task that itself iterated over a list,
\* whichever of input, loop or the implicit chain supplies it.
C4_FilteredAtMostOnce ==
  FiltersApplied => \A name \in Producers : ~Truthy(DictGet(task_was_loop, name))

\* The fan-out, the single invocation or the batch invocation of the task
\* under way has ended and its result is about to be registered.
ResultReady == pc = "register"

MatchingFiles ==
  LET names == SortStrings({f \in disk : WildMatch(DictGet(task_def.args, S_pattern).s, f)})
  IN  VList([k \in 1..Len(names) |-> VStr(names[k])])

C6_InputPrecedence ==
  TaskUnderWay =>
    /\ task_def.input # VNull => input_ref = task_def.input
    /\ (task_def.input = VNull /\ task_def.loop # VNull) => input_ref = VNull
    /\ (task_def.input = VNull /\ task_def.loop = VNull) => input_ref = last_task_name

(***************************************************************************)
(* Properties of template resolution: the recursion limit and the filters  *)
(***************************************************************************)

\* Some string of the value still holds the opening of a template.
RECURSIVE HoldsTemplate(_)
HoldsTemplate(v) ==
  IF IsStr(v) THEN FindFrom(v.s, <<"{", "{">>, 1) > 0
  ELSE IF IsList(v) THEN \E i \in 1..Len(v.l) : HoldsTemplate(v.l[i])
  ELSE IF IsDict(v) THEN \E i \in 1..Len(v.d) : HoldsTemplate(v.d[i].v)
  ELSE FALSE

\* C11: a call of _resolve_variable at depth 0 returns for every value and
\* every context, also when variables refer to themselves or to each other
\* in a cycle; no call it makes has a depth over 11, and a call at depth 11
\* returns the value it was given as it is.
C11_RecursionStopsAtLimit ==
  rPc = "done" =>
    /\ DeepestCall(rValue, rContext, 0) <= MaxDepth + 1
    /\ Resolve(rValue, rContext, MaxDepth + 1) = rValue
    /\ Resolve(rRes, rContext, MaxDepth + 1) = rRes

\* A value whose variables form a cycle has been resolved: the limit was
\* reached and the result still holds a template.
C11_Witness ==
  /\ rPc = "done"
  /\ DeepestCall(rValue, rContext, 0) = MaxDepth + 1
  /\ rRes # VRaise
  /\ HoldsTemplate(rRes)


\* The expression of the value being resolved, split at "|": a variable
\* expression followed by filters.
ExprParts ==
  LET sp == SplitOn(ExpressionOf(rValue.s), "|") IN [i \in 1..Len(sp) |-> Strip(sp[i])]

\* The shapes a filter works on: a string for basename, dirname and
\* replace, a list for map, and anything that can be iterated for list.
Accepts(f, v) ==
  IF StartsWith(f, S_replace) \/ f = S_basename \/ f = S_dirname THEN IsStr(v)
  ELSE IF StartsWith(f, S_map) THEN IsList(v)
  ELSE IF f = S_list THEN IsStr(v) \/ IsList(v) \/ IsDict(v)
  ELSE TRUE

\* A string that is one expression "name | filter" has been resolved, name
\* is a variable of the context and its value has a shape the filter does
\* not work on.
WrongShapeFiltered ==
  /\ rPc = "done"
  /\ IsStr(rValue)
  /\ IsOneExpression(rValue.s)
  /\ Len(ExprParts) = 2
  /\ DictHas(rContext, ExprParts[1])
  /\ ~Accepts(ExprParts[2], DictGet(rContext, ExprParts[1]))

\* C12: a filter applied to an operand of a shape it does not work on
\* leaves the operand unchanged and raises no error.
C12_WrongShapeFilterIsNoOp ==
  WrongShapeFiltered =>
    /\ rRes # VRaise
    /\ Target = DictGet(rContext, ExprParts[1])


(***************************************************************************)
(* Properties of a run: config errors, the state dump, the effective       *)
(* filters                                                                 *)
(***************************************************************************)

\* The positions of the playbook whose task names a type that is no task.
UnknownTypeTasks ==
  {k \in 1..Len(playbook) : Truthy(playbook[k].type) /\ UnknownTaskType(playbook[k].type)}

\* C13: when the run has ended, a task with a config error (here: a type
\* that names no task) has null recorded under its name, and the tasks
\* after it have run.
C13_ConfigErrorRecordsNull ==
  pc = "done" =>
    \A k \in UnknownTypeTasks :
      /\ DictHas(task_results, playbook[k].name)
      /\ DictGet(task_results, playbook[k].name) = VNull
      /\ \A j \in (k + 1)..Len(playbook) :
           (j \in RunnableBefore(Len(playbook) + 1)) => DictHas(task_results, playbook[j].name)


\* The run has ended: the loop over the tasks is over, or an exception has
\* left run.
RunEnded == pc \in {"done", "aborted"}

\* C14: with a dump_path, a run that has ended has written the state file,
\* whatever became of its tasks.
C14_RunEndsWithDump ==
  (RunEnded /\ Truthy(dump_path)) => dump_path.s \in disk


(***************************************************************************)
(* Properties of a playbook run twice: existing files, dry runs            *)
(***************************************************************************)

\* The task writes files: a convert, an inscribe or an ffmpeg.
FileProducing(t) ==
  IsStr(t.type) /\ t.type.s \in {S_convert, S_inscribe, S_ffmpeg}

\* Every task of the playbook that writes files has existing: skip.
SkipsExisting ==
  \A i \in 1..Len(playbook) :
    FileProducing(playbook[i]) => Existing(playbook[i].args) = VStr(S_skip)

\* The second run, on the files the first run left, is over.
RanAgain == run_no = 2 /\ ~dry_run /\ pc = "done"

\* C15: when a playbook whose file-producing tasks all have existing: skip
\* is run a second time, the task results of the second run are those of
\* the first run, and the second run runs no tool and saves no image for an
\* output that was there when it started.
C15_SecondRunSameResults ==
  (RanAgain /\ SkipsExisting) =>
    /\ task_results = first_results
    /\ invoked \cap start_disk = {}

\* The part of the above about the tools alone.
SecondRunInvokesNothingPresent ==
  (RanAgain /\ SkipsExisting) => invoked \cap start_disk = {}

\* C16: a dry run writes nothing to the file system and deletes nothing:
\* the files are those that were there when the run started.
C16_DryRunLeavesFilesAlone == dry_run => disk = start_disk

\* The tasks of a dry run write nothing: until the run ends the files are
\* those that were there when it started.
DryRunTasksLeaveFilesAlone == (dry_run /\ pc # "done") => disk = start_disk

\* An invocation raised: the value holds a null.
RECURSIVE HoldsNull(_)
HoldsNull(v) ==
  \/ v = VNull
  \/ IsList(v) /\ \E i \in 1..Len(v.l) : HoldsNull(v.l[i])
  \/ IsDict(v) /\ \E i \in 1..Len(v.d) : HoldsNull(v.d[i].v)

\* The dry run that follows a run in which no invocation raised is over.
RanDry == run_no = 2 /\ dry_run /\ pc = "done" /\ ~HoldsNull(first_results)

\* C17: the task results of a dry run are those of the run that is not a
\* dry run, for the same playbook on the same files, when no invocation of
\* that run failed.
C17_DryRunSameResults == RanDry => task_results = first_results


(***************************************************************************)
(* Properties of path mapping                                              *)
(***************************************************************************)

\* run has returned a record of the standard mode.
MappedRecord == mPc = "done" /\ IsDict(mRes)

\* The record is {src, dst}, two strings in that order.
IsTransition(r) ==
  /\ Len(r.d) = 2
  /\ r.d[1].k = S_src /\ IsStr(r.d[1].v)
  /\ r.d[2].k = S_dst /\ IsStr(r.d[2].v)

\* C18 as stated: every record of the standard mode is {src, dst} with dst
\* equal to src in which every occurrence of search is replaced by replace,
\* or to the regex substitution of search by replace in src when regex is
\* true.
C18_DstIsSrcReplaced ==
  MappedRecord =>
    /\ IsTransition(mRes)
    /\ DictGet(mRes, S_dst).s =
         IF UseRegex(mArgs)
         THEN ReSubFrom(ReTokens(DictGet(mArgs, <<"s", "e", "a", "r", "c", "h">>).s), DictGet(mArgs, <<"r", "e", "p", "l", "a", "c", "e">>).s,
                        DictGet(mRes, S_src).s, 1)
         ELSE StrReplace(DictGet(mRes, S_src).s, DictGet(mArgs, <<"s", "e", "a", "r", "c", "h">>).s,
                         DictGet(mArgs, <<"r", "e", "p", "l", "a", "c", "e">>).s)

\* C18: every record of the standard mode is {src, dst}.  When regex is
\* true, dst is the regex substitution of search by replace in src.
\* Otherwise dst is src in which every occurrence of search is replaced by
\* replace, to which the last character of search is appended first when
\* search ends with "/" or "\" and replace ends with neither.
C18_DstIsSrcMapped ==
  MappedRecord =>
    LET src == DictGet(mRes, S_src).s
        search == DictGet(mArgs, <<"s", "e", "a", "r", "c", "h">>).s
        replace == DictGet(mArgs, <<"r", "e", "p", "l", "a", "c", "e">>).s
        ends(s) == Len(s) > 0 /\ (s[Len(s)] = "/" \/ s[Len(s)] = "\\")
    IN  /\ IsTransition(mRes)
        /\ DictGet(mRes, S_dst).s =
             IF UseRegex(mArgs) THEN ReSubFrom(ReTokens(search), replace, src, 1)
             ELSE IF ends(search) /\ ~ends(replace)
             THEN StrReplace(src, search, replace \o <<search[Len(search)]>>)
             ELSE StrReplace(src, search, replace)

\* A record whose dst holds the separator that replace did not end with.
C18_Witness ==
  /\ MappedRecord
  /\ ~UseRegex(mArgs)
  /\ DictGet(mArgs, <<"s", "e", "a", "r", "c", "h">>) = VStr(<<"/", "i", "n", "/">>)
  /\ DictGet(mArgs, <<"r", "e", "p", "l", "a", "c", "e">>) = VStr(<<"/", "o", "u", "t">>)
  /\ DictGet(mRes, S_src) = VStr(<<"/", "i", "n", "/", "a", ".", "1", ".", "x">>)
  /\ DictGet(mRes, S_dst) = VStr(<<"/", "o", "u", "t", "/", "a", ".", "1", ".", "x">>)


\* reduce_paths has returned its records.
Reduced == mPc = "done" /\ IsList(mRes)

\* The positions of the items of the batch that have a path.
Resolvable ==
  {i \in 1..Len(DictGet(mArgs, S_items).l) :
     Truthy(_resolve_source(DictGet(mArgs, S_items).l[i], VNull,
                            DictGet(mArgs, <<"i", "n", "p", "u", "t", "_", "k", "e", "y">>)))}

\* The mapped path of the item at position i.
MappedPathOf(i) ==
  Substitute(mArgs, _resolve_source(DictGet(mArgs, S_items).l[i], VNull,
                                    DictGet(mArgs, <<"i", "n", "p", "u", "t", "_", "k", "e", "y">>)).s)

\* The records whose files hold the item at position i.
RecordsOf(i) ==
  {n \in 1..Len(mRes.l) :
     InList(DictGet(mArgs, S_items).l[i], DictGet(mRes.l[n], <<"f", "i", "l", "e", "s">>).l)}

RECURSIVE SumLen(_)
SumLen(records) ==
  IF records = << >> THEN 0
  ELSE Len(DictGet(records[1], <<"f", "i", "l", "e", "s">>).l) + SumLen(Tail(records))

\* C19: in reduce mode the records partition the items that have a path by
\* the shot of their mapped path.  Every such item is in the files of
\* exactly one record and the files hold nothing else; two items are in the
\* same record exactly when their mapped paths are frame paths with the same
\* stem and the same extension, or are the same path that is no frame path;
\* and the base_path of a record is the stem of the mapped paths of its
\* items, the whole mapped path for a path that is no frame path.
C19_ReducePartitionsByShot ==
  Reduced =>
    /\ \A i \in Resolvable : Cardinality(RecordsOf(i)) = 1
    /\ SumLen(mRes.l) = Cardinality(Resolvable)
    /\ \A i \in 1..Len(DictGet(mArgs, S_items).l) : i \notin Resolvable => RecordsOf(i) = {}
    /\ \A i, j \in Resolvable :
         RecordsOf(i) = RecordsOf(j) <=>
           IF FrameMatch(MappedPathOf(i)).ok /\ FrameMatch(MappedPathOf(j)).ok
           THEN /\ FrameMatch(MappedPathOf(i)).stem = FrameMatch(MappedPathOf(j)).stem
                /\ FrameMatch(MappedPathOf(i)).ext = FrameMatch(MappedPathOf(j)).ext
           ELSE MappedPathOf(i) = MappedPathOf(j)
    /\ \A i \in Resolvable : \A n \in RecordsOf(i) :
         DictGet(mRes.l[n], <<"b", "a", "s", "e", "_", "p", "a", "t", "h">>) =
           VStr(IF FrameMatch(MappedPathOf(i)).ok THEN FrameMatch(MappedPathOf(i)).stem
                ELSE MappedPathOf(i))

\* Frames of two shots, given out of order, reduced to two records.
C19_Witness ==
  /\ Reduced
  /\ DictGet(mArgs, S_items) = VList(<<VStr(<<"/", "i", "n", "/", "a", ".", "2", ".", "x">>), VStr(<<"/", "i", "n", "/", "b", "_", "1", ".", "x">>), VStr(<<"/", "i", "n", "/", "a", ".", "1", ".", "x">>)>>)
  /\ DictGet(mArgs, <<"s", "e", "a", "r", "c", "h">>) = VStr(<<"/", "i", "n">>)
  /\ DictGet(mArgs, <<"r", "e", "p", "l", "a", "c", "e">>) = VStr(<<"/", "o", "u", "t">>)
  /\ mRes = VList(<<VDict(<<[k |-> <<"f", "i", "l", "e", "s">>, v |-> VList(<<VStr(<<"/", "i", "n", "/", "a", ".", "1", ".", "x">>), VStr(<<"/", "i", "n", "/", "a", ".", "2", ".", "x">>)>>)],
                            [k |-> <<"b", "a", "s", "e", "_", "p", "a", "t", "h">>, v |-> VStr(<<"/", "o", "u", "t", "/", "a">>)]>>),
                     VDict(<<[k |-> <<"f", "i", "l", "e", "s">>, v |-> VList(<<VStr(<<"/", "i", "n", "/", "b", "_", "1", ".", "x">>)>>)],
                            [k |-> <<"b", "a", "s", "e", "_", "p", "a", "t", "h">>, v |-> VStr(<<"/", "o", "u", "t", "/", "b">>)]>>)>>)


(***************************************************************************)
(* Properties of the constructor: precedence of the settings               *)
(***************************************************************************)

\* The first value given among the argument, the config of the playbook and
\* the global defaults, else the built-in default.
FirstGiven(given, key, default) ==
  IF given # VNull THEN given
  ELSE IF cConfig # VNull /\ DictGet(cConfig, key) # VNull THEN DictGet(cConfig, key)
  ELSE IF DictGet(cGlobals, key) # VNull THEN DictGet(cGlobals, key)
  ELSE default

\* C20: the effective file_amount and every_nth are the values given to the
\* constructor (on the command line) when given, otherwise those of the
\* config of the playbook, otherwise those of the global defaults, otherwise
\* 1.0 and 1, for every combination of given and absent values.
C20_ArgumentThenConfigThenGlobals ==
  cPc \in {"done", "run"} =>
    /\ ~cRes.raised
    /\ cRes.file_amount = FirstGiven(cGiven.file_amount, <<"f", "i", "l", "e", "_", "a", "m", "o", "u", "n", "t">>, VFloat(1, 1))
    /\ cRes.every_nth = FirstGiven(cGiven.every_nth, <<"e", "v", "e", "r", "y", "_", "n", "t", "h">>, VNum(1))

\* The precedence holds whenever the file_amount given is not 1.0.
PrecedenceButForOne ==
  /\ cPc \in {"done", "run"}
  /\ cGiven.file_amount \notin {VNull, VFloat(1, 1)}
  => /\ ~cRes.raised
     /\ cRes.file_amount = cGiven.file_amount
     /\ cRes.every_nth = FirstGiven(cGiven.every_nth, <<"e", "v", "e", "r", "y", "_", "n", "t", "h">>, VNum(1))

\* --file-amount 1.0 on the command line is taken as not given.
CliOneIsNotGiven ==
  cPc = "run" /\ cGiven.file_amount = VFloat(1, 1) /\ cConfig # VNull
    /\ DictGet(cConfig, <<"f", "i", "l", "e", "_", "a", "m", "o", "u", "n", "t">>) = VFloat(1, 4)
  => cRes.file_amount = VFloat(1, 4)

\* every_nth given to the constructor without a file_amount below 1.0 raises.
NthAloneRaises ==
  cPc = "done" /\ cGiven.every_nth # VNull /\ cGiven.file_amount \in {VNull, VFloat(1, 1)}
  => cRes.raised


(***************************************************************************)
(* Properties of the contexts of the invocations                           *)
(***************************************************************************)

\* The item of invocation idx and the entries the engine sets for it.
ItemOf(idx) == IF IsList(kInput) /\ kInput.l # << >> THEN kInput.l[idx] ELSE kInput

EngineEntries(idx) ==
  IF IsList(kInput) /\ kInput.l # << >>
  THEN << [k |-> S_item, v |-> kInput.l[idx]],
          [k |-> S_index, v |-> VNum(idx - 1)],
          [k |-> S_total, v |-> VNum(Len(kInput.l))],
          [k |-> S_first_item, v |-> kInput.l[1]],
          [k |-> S_last_item, v |-> kInput.l[Len(kInput.l)]] >>
  ELSE << [k |-> S_item, v |-> kInput],
          [k |-> S_index, v |-> VNum(0)],
          [k |-> S_total, v |-> VNum(1)],
          [k |-> S_first_item, v |-> kInput],
          [k |-> S_last_item, v |-> kInput] >>

EngineKeys == {S_item, S_index, S_total, S_first_item, S_last_item}

KeySet(d) == {d.d[i].k : i \in 1..Len(d.d)}

\* C21: in the context of every invocation, item, index, total, first_item
\* and last_item have the values the engine set, every variable (every prior
\* task result is one) that has another name has its value, task_results
\* being the mapping of the results; of an item that is a key/value map
\* exactly the keys that are none of these are taken, with its values.
C21_ItemKeysNeverOverwrite ==
  kPc = "done" =>
    \A idx \in 1..Len(kContexts) :
      /\ \A n \in 1..5 :
           DictGet(kContexts[idx], EngineEntries(idx)[n].k) = EngineEntries(idx)[n].v
      /\ \A key \in KeySet(kVariables) \ EngineKeys :
           DictGet(kContexts[idx], key) =
             IF DictGet(kVariables, key) = VLive THEN kResults
             ELSE DictGet(kVariables, key)
      /\ IsDict(ItemOf(idx)) =>
           \A key \in KeySet(ItemOf(idx)) \ (EngineKeys \cup KeySet(kVariables)) :
             DictGet(kContexts[idx], key) = DictGet(ItemOf(idx), key)
      /\ KeySet(kContexts[idx]) =
           EngineKeys \cup KeySet(kVariables)
             \cup (IF IsDict(ItemOf(idx)) THEN KeySet(ItemOf(idx)) ELSE {})

\* The second item of a fan-out is a map that holds index, files and note:
\* its context has the index 1 and the variable files, and note from the
\* item.
C21_Witness ==
  /\ kPc = "done"
  /\ Len(kContexts) = 2
  /\ kInput.l[2] = MapItem({2, 6, 10})
  /\ DictGet(kContexts[2], S_index) = VNum(1)
  /\ DictGet(kContexts[2], <<"f", "i", "l", "e", "s">>) = VList(<<VStr(<<"a", ".", "1", ".", "x">>)>>)
  /\ DictGet(kContexts[2], <<"n", "o", "t", "e">>) = VStr(<<"o", "f", " ", "i", "t", "e", "m", " ", "n", "o", "t", "e">>)


(***************************************************************************)
(* Properties of a run: the registry, the implicit chain, the invocations, *)
(* the label                                                               *)
(***************************************************************************)

\* The entries of d other than the one of key are the same in d and e.
SameButFor(d, e, key) ==
  \A i \in 1..Len(d.d) :
    d.d[i].k # key => DictHas(e, d.d[i].k) /\ DictGet(e, d.d[i].k) = d.d[i].v

\* C22: variables and task_results change in the registration step of a
\* task only: no step that selects and filters an input set, submits,
\* executes or collects a fan-out, runs a batch or a single invocation,
\* passes a task over or ends the run changes either of them; and the
\* registration of a task leaves the entry of every other name as it was, in
\* task_results and in variables.
C22_RegistryChangesAtRegistrationOnly ==
  [][ /\ (variables' # variables \/ task_results' # task_results) => pc = "register"
      /\ pc = "register" =>
           /\ SameButFor(task_results, task_results', task_def.name)
           /\ SameButFor(variables, variables', task_def.name) ]_vars

\* Two tasks are registered, the second after a fan-out over the result of
\* the first, which is still the list it was registered with.
C22_Witness ==
  /\ pc = "next"
  /\ task_i = 3
  /\ DictGet(task_results, <<"t", "1">>) = FrameList
  /\ DictGet(variables, <<"t", "1">>) = FrameList
  /\ DictHas(task_results, <<"t", "2">>)
  /\ DictGet(task_was_loop, <<"t", "2">>) = VBool(TRUE)


\* The task under way is not the first and gives neither input nor loop.
ChainsImplicitly ==
  /\ TaskUnderWay
  /\ task_i > 1
  /\ task_def.input = VNull
  /\ task_def.loop = VNull

\* C23: a task that is not the first and gives neither input nor loop has
\* as its input the result of the task declared just before it, whatever
\* became of that task.
C23_InputIsResultOfPreviousTask ==
  ChainsImplicitly =>
    /\ input_ref = VStr(playbook[task_i - 1].name)
    /\ DictHas(task_results, playbook[task_i - 1].name)

\* The chain does lead to the task declared just before when that task has a
\* type that names a task, whether its invocations failed or not.
ChainsToPreviousThatRan ==
  (ChainsImplicitly /\ (task_i - 1) \in RunnableBefore(task_i)) =>
    /\ input_ref = VStr(playbook[task_i - 1].name)
    /\ DictHas(task_results, playbook[task_i - 1].name)

\* After a task that was passed over the chain leads to the last task that
\* was registered, or nowhere.
ChainsPastSkipped ==
  (ChainsImplicitly /\ (task_i - 1) \notin RunnableBefore(task_i)) =>
    input_ref = last_task_name /\ input_ref # VStr(playbook[task_i - 1].name)


\* The input set of the task whose result is ready is a list.
InputIsList == ResultReady /\ IsList(items_to_process)

\* C24: a task whose input set is a list of n items, n >= 0, has fanned out
\* into exactly n invocations, the k-th for the k-th item, when batch is
\* false, and has run as one batch invocation when batch is true; only an
\* input set that is no list has led to a single invocation.
C24_InvocationsFollowInput ==
  /\ (InputIsList /\ ~task_def.batch) =>
       /\ mode = "fanout"
       /\ Len(futures) = Len(items_to_process.l)
       /\ \A k \in 1..Len(futures) : futures[k].item = items_to_process.l[k]
  /\ (InputIsList /\ task_def.batch) => mode = "batch"
  /\ (ResultReady /\ mode = "single") => ~IsList(items_to_process)

\* For a list that is not empty the invocations are as stated.
InvocationsFollowNonEmptyInput ==
  /\ (InputIsList /\ items_to_process.l # << >> /\ ~task_def.batch) =>
       /\ mode = "fanout"
       /\ Len(futures) = Len(items_to_process.l)
       /\ \A k \in 1..Len(futures) : futures[k].item = items_to_process.l[k]
  /\ (InputIsList /\ items_to_process.l # << >> /\ task_def.batch) => mode = "batch"
  /\ (ResultReady /\ mode = "single") =>
       (~IsList(items_to_process) \/ items_to_process.l = << >>)

\* An empty list is the item of one single invocation, batch or not, and
\* the result is what that invocation returned, not an empty list.
EmptyInputRunsOnce ==
  (InputIsList /\ items_to_process.l = << >>) =>
    mode = "single" /\ futures = << >> /\ ~IsList(task_output)


\* A task has been registered and no task is under way.
AfterRegistration == pc \in {"next", "done"} /\ task_results # VDict(<< >>)

\* C25: after every registration, variables holds under every registered
\* name the result that task_results holds, and the entry task_results of
\* variables, which every context is copied from, is the mapping
\* task_results itself, whatever the names of the tasks are.
C25_VariablesMirrorResults ==
  AfterRegistration =>
    /\ \A n \in 1..Len(task_results.d) :
         DictGet(Context(variables, task_results), task_results.d[n].k)
           = task_results.d[n].v
    /\ DictGet(variables, S_task_results) = VLive

\* Every registered name has the same value in variables and in
\* task_results.
RegisteredNamesAgree ==
  AfterRegistration =>
    \A n \in 1..Len(task_results.d) :
      DictGet(Context(variables, task_results), task_results.d[n].k)
        = task_results.d[n].v

\* The entry task_results is the mapping itself unless a task has that name.
MirrorUnlessNamedTaskResults ==
  (AfterRegistration /\ ~DictHas(task_results, S_task_results)) =>
    DictGet(variables, S_task_results) = VLive

\* Once a task named task_results is registered, the entry is the result of
\* that task, in which no other task's result can be found.
NamedTaskResultsReplacesMirror ==
  (AfterRegistration /\ DictHas(task_results, S_task_results)) =>
    DictGet(Context(variables, task_results), S_task_results)
      = DictGet(task_results, S_task_results)


(***************************************************************************)
(* Properties of the filtering step: order, and what cannot fail           *)
(***************************************************************************)

\* The file_amount step has run with a file_amount below 1.0 and returned.
Sampled == fPc = "done" /\ fAmount.num < fAmount.den /\ ~fRes.raised

\* C26: for any input list and any file_amount < 1.0 the output of the
\* stride sampling is a subsequence of the input, the kept items being in
\* the order they have in the input, and it is the same for whatever
\* addresses the items have.
C26_SampleIsSubsequence ==
  Sampled =>
    /\ IsSubsequence(fRes.sampled, fItems)
    /\ \A idents \in IdentChoices(fItems) :
         SampleItems(fItems, idents, fAmount).items = fRes.sampled

\* The output holds the kept items shot after shot, the shots in the order
\* of their sorted keys: it is a subsequence of the input whenever the input
\* is one shot.
OneShotSampleIsSubsequence ==
  (Sampled /\ IsSingleShot(fItems)) => IsSubsequence(fRes.sampled, fItems)

\* The output is the same for all addresses when at most one item is no
\* frame.
SampleFixedWithOneSingle ==
  (Sampled /\ Cardinality({i \in 1..Len(fItems) : ~IsFrameItem(fItems[i])}) <= 1) =>
    \A idents \in IdentChoices(fItems) :
      SampleItems(fItems, idents, fAmount).items = fRes.sampled


\* Every item of the input is a path string.
AllPathStrings == \A i \in 1..Len(fItems) : IsStr(fItems[i])

\* For a shot of n frames: the target count is at least 2 whenever it is
\* smaller than n, and every index picked lies in 0..n-1.
StrideIsSafe(n, fa) ==
  /\ SampleLimit(n, fa) < n => SampleLimit(n, fa) >= 2
  /\ SampleLimit(n, fa) < n =>
       \A j \in 0..(SampleLimit(n, fa) - 1) :
         StrideIndex(j, n, SampleLimit(n, fa)) \in 0..(n - 1)

\* C30: for every shot size n >= 1 and every file_amount in [0, 1) the
\* stride computation does not divide by zero and picks indices in
\* [0, n-1], so that the filtering of a list of path strings never fails.
C30_FilteringPathsNeverFails ==
  (fPc = "done" /\ fAmount.num < fAmount.den /\ AllPathStrings) =>
    /\ \A n \in 1..Len(fItems) : StrideIsSafe(n, fAmount)
    /\ ~fRes.raised

\* The stride computation itself is safe for every shot size and every
\* file_amount below 1.0, 0 included.
StrideNeverFails ==
  (fPc = "done" /\ fAmount.num < fAmount.den) =>
    \A n \in 1..Len(fItems) : StrideIsSafe(n, fAmount)

\* The filtering of path strings fails only in sorted(): never for the
\* frames of one shot.
OneShotNeverFails ==
  (fPc = "done" /\ IsSingleShot(fItems)) => ~fRes.raised


\* C28: the label is "[i/N name]" while task i is under way and empty
\* whenever no task is under way: after a task was registered (its
\* invocations failed or not), after a task was passed over for a config
\* error, and at the end of the run.
C28_LabelSetAndCleared ==
  /\ TaskUnderWay => label = task_info
  /\ pc \in {"next", "done"} => label = << >>

\* While a task is under way the label is its own.
LabelOfTaskUnderWay == TaskUnderWay => label = task_info

\* Between tasks and at the end of the run the label is empty unless the
\* last task that had a type named no task.
LabelClearedButAfterUnknownType ==
  (/\ pc \in {"next", "done"}
   /\ \A j \in 1..(task_i - 1) :
        (Truthy(playbook[j].type) /\ UnknownTaskType(playbook[j].type)) =>
          \E m \in (j + 1)..(task_i - 1) : m \in RunnableBefore(task_i))
  => label = << >>

\* After a task whose type names no task the label of that task stays.
LabelKeptAfterUnknownType ==
  (/\ pc \in {"next", "done"}
   /\ task_i > 1
   /\ Truthy(playbook[task_i - 1].type)
   /\ UnknownTaskType(playbook[task_i - 1].type))
  => label = <<"[">> \o NatStr(task_i - 1) \o <<"/">> \o NatStr(Len(playbook))
               \o <<" ">> \o playbook[task_i - 1].name \o <<"]">>


(***************************************************************************)
(* Properties of template resolution: interpolation, and what is left as   *)
(* written                                                                 *)
(***************************************************************************)

\* The string with every occurrence of {{ expr }} from position i on
\* replaced by the string form of the value of expr, and left as written
\* when expr has no value.  An occurrence opens with "{{", holds at least
\* one character and no closing brace, and closes with "}}".
RECURSIVE Interpolated(_, _, _)
Interpolated(s, i, context) ==
  LET open == FindFrom(s, <<"{", "{">>, i)
      close == FindFrom(s, <<"}", "}">>, open + 3)
      isOccurrence == /\ close > 0
                      /\ \A m \in (open + 2)..(close - 1) : s[m] # "}"
      val == ResolveExpr(Strip(SubSeq(s, open + 2, close - 1)), context)
  IN  IF open = 0 THEN SubSeq(s, i, Len(s))
      ELSE IF ~isOccurrence THEN SubSeq(s, i, open) \o Interpolated(s, open + 1, context)
      ELSE SubSeq(s, i, open - 1)
             \o (IF val \in {VNull, VRaise} THEN SubSeq(s, open, close + 1) ELSE PyStr(val))
             \o Interpolated(s, close + 2, context)

\* A string that is not exactly one expression has been resolved.
InterpolatedStringResolved ==
  /\ rPc = "done"
  /\ IsStr(rValue)
  /\ ~IsOneExpression(rValue.s)

\* A string that is exactly one expression without a value has been
\* resolved.
WholeExpressionUnresolved ==
  /\ rPc = "done"
  /\ IsStr(rValue)
  /\ IsOneExpression(rValue.s)
  /\ Target \in {VNull, VRaise}

\* C27: in a string that is not exactly one expression every resolved
\* occurrence of {{ expr }} is replaced by the string form of its value and
\* every unresolved occurrence stays as written (the string that results is
\* resolved again when it changed); a string that is exactly one expression
\* that cannot be resolved comes back as the original text or as null; no
\* error is raised in either case.
C27_InterpolationAndUnresolved ==
  /\ InterpolatedStringResolved =>
       /\ rRes # VRaise
       /\ rRes = (IF Interpolated(rValue.s, 1, rContext) = rValue.s THEN rValue
                  ELSE Resolve(VStr(Interpolated(rValue.s, 1, rContext)), rContext, 1))
  /\ WholeExpressionUnresolved =>
       /\ rRes # VRaise
       /\ rRes \in {rValue, VNull}

\* Every expression of the resolved string is evaluated without an error.
RECURSIVE NoExpressionRaises(_, _, _)
NoExpressionRaises(s, i, context) ==
  LET open == FindFrom(s, <<"{", "{">>, i)
      close == FindFrom(s, <<"}", "}">>, open + 3)
  IN  \/ open = 0
      \/ /\ close > 0 /\ (\A m \in (open + 2)..(close - 1) : s[m] # "}")
            => ResolveExpr(Strip(SubSeq(s, open + 2, close - 1)), context) # VRaise
         /\ NoExpressionRaises(s, open + 1, context)

\* What holds of interpolation: when none of the expressions of the string
\* raises, the resolved occurrences are replaced and the others left as
\* written, and an error comes only from resolving the result again.
InterpolationUnlessExpressionRaises ==
  (InterpolatedStringResolved /\ NoExpressionRaises(rValue.s, 1, rContext)) =>
    rRes = (IF Interpolated(rValue.s, 1, rContext) = rValue.s THEN rValue
            ELSE Resolve(VStr(Interpolated(rValue.s, 1, rContext)), rContext, 1))

\* What holds of a whole expression without a value: the original text
\* comes back unless evaluating the expression raises.
UnresolvedWholeIsOriginalText ==
  (WholeExpressionUnresolved /\ Target = VNull) => rRes = rValue

\* An expression that raises makes the call raise, in a whole expression
\* and inside a longer string.
ExpressionErrorsEscape ==
  (rPc = "done" /\ IsStr(rValue) /\ ~NoExpressionRaises(rValue.s, 1, rContext))
    => rRes = VRaise


\* The first occurrence of {{ expr }} in s as written, and its expression
\* split at "|": a variable expression followed by filters.
FirstOccurrence(s) ==
  LET open == FindFrom(s, <<"{", "{">>, 1)
      close == FindFrom(s, <<"}", "}">>, open + 3)
  IN  IF open = 0 \/ close = 0 THEN << >> ELSE SubSeq(s, open, close + 1)

OccurrenceParts(s) ==
  LET text == FirstOccurrence(s)
      sp == SplitOn(Strip(SubSeq(text, 3, Len(text) - 2)), "|")
  IN  [i \in 1..Len(sp) |-> Strip(sp[i])]

\* The context without the variable name.
ContextWithout(context, name) ==
  VDict(SelectSeq(context.d, LAMBDA e : e.k # name))

\* A string whose first expression names a variable of the context whose
\* value is null has been resolved.
NullVariableResolved ==
  /\ rPc = "done"
  /\ IsStr(rValue)
  /\ FirstOccurrence(rValue.s) # << >>
  /\ DictHas(rContext, OccurrenceParts(rValue.s)[1])
  /\ DictGet(rContext, OccurrenceParts(rValue.s)[1]) = VNull

\* The null variable is left as an expression without a value is left: the
\* result is the one the same call gives in a context that does not hold
\* the variable, the text of the expression is still in it, and a string
\* that is only the expression comes back as it was.
LeftLikeUnresolved ==
  /\ rRes = Resolve(rValue, ContextWithout(rContext, OccurrenceParts(rValue.s)[1]), 0)
  /\ IsStr(rRes)
  /\ FindFrom(rRes.s, FirstOccurrence(rValue.s), 1) > 0
  /\ IsOneExpression(rValue.s) => rRes = rValue

\* C29: an expression that names a variable whose value is null is treated
\* exactly like an expression that cannot be resolved: its {{ ... }} text
\* stays in the argument as written, when the string is only the
\* expression and when it is part of a longer string.
C29_NullIsLeftLikeUnresolved == NullVariableResolved => LeftLikeUnresolved

\* What holds: a null variable is left like an unresolved one unless the
\* list filter is applied to it.
NullLeftUnlessListFilter ==
  (/\ NullVariableResolved
   /\ \A i \in 2..Len(OccurrenceParts(rValue.s)) : OccurrenceParts(rValue.s)[i] # S_list)
  => LeftLikeUnresolved

\* The list filter applied to a null variable raises, and applied to a
\* variable the context does not hold it does not.
NullThroughListRaises ==
  (/\ rPc = "done"
   /\ IsStr(rValue)
   /\ FirstOccurrence(rValue.s) # << >>
   /\ \E i \in 2..Len(OccurrenceParts(rValue.s)) : OccurrenceParts(rValue.s)[i] = S_list)
  => /\ (/\ DictHas(rContext, OccurrenceParts(rValue.s)[1])
         /\ DictGet(rContext, OccurrenceParts(rValue.s)[1]) = VNull) => rRes = VRaise
     /\ ~DictHas(rContext, OccurrenceParts(rValue.s)[1]) => rRes # VRaise

=============================================================================
